---- MODULE Spec2Model ----
(***************************************************************************)
(* Model of the help-center synchronisation tool: the local tree of        *)
(* categories, sections and articles, the remote help-center records, the  *)
(* translation store, and the tasks that reconcile them: Doctor            *)
(* (src/src/zendesk.py), Export = Doctor + Pusher.push (src/src/cms.py,    *)
(* src/src/zendesk.py) and Remove (src/src/cms.py, src/src/zendesk.py,     *)
(* src/src/translate.py, src/src/filesystem.py).                           *)
(*                                                                         *)
(* The remote system and the user are the environment: between two task    *)
(* runs a remote record may be deleted, renamed, touched or added by hand  *)
(* and a local file may be edited; a remote call may be answered with a    *)
(* non-2xx status; the process may be killed between two steps.            *)
(***************************************************************************)
EXTENDS Integers, Sequences, FiniteSets, TLC

\* ------------------------------------------------------------------ bounds
NumSections == 1      \* sections of the one category of the local tree
NumArticles == 1      \* articles of every section
MaxRuns == 2          \* task runs in one behaviour
MaxEdits == 2         \* manual edits (remote or local) in one behaviour
MaxStops == 1         \* times the process is killed in one behaviour
MaxFails == 1         \* remote calls answered with a 5xx status
MaxTrouble == 2       \* edits, kills and failed calls together

\* ---------------------------------------------------------- the local tree
\* Entities are numbered in the order of the walk of Doctor.fix and
\* Pusher.push: the category, then each section followed by its articles.
Span == 1 + NumArticles
Entities == 1 .. (1 + NumSections * Span)

IsCategory(e) == e = 1
IsSection(e) == e > 1 /\ (e - 2) % Span = 0
IsArticle(e) == e > 1 /\ (e - 2) % Span # 0

\* Section.category / Article.section; 0 for a category.
Parent(e) ==
    IF IsCategory(e) THEN 0
    ELSE IF IsSection(e) THEN 1
    ELSE e - ((e - 2) % Span)

\* zendesk_group of the entity's class.
ZendeskGroup(e) ==
    IF IsCategory(e) THEN "categories"
    ELSE IF IsSection(e) THEN "sections"
    ELSE "articles"

\* The entity and everything below it.
Subtree(e) ==
    {d \in Entities :
        \/ d = e
        \/ Parent(d) = e
        \/ (Parent(d) # 0 /\ Parent(Parent(d)) = e)}

\* model.DEFAULT_LOCALE
DEFAULT_LOCALE == "en-US"

\* The translations every entity carries, in the order the Loader lists
\* them (for a group the default locale is appended last).
LocalLocales == <<"pl", DEFAULT_LOCALE>>

\* utils.to_zendesk_locale: lower-cases the code.
to_zendesk_locale(l) ==
    CASE l = "en-US" -> "en-us"
      [] l = "pl" -> "pl"
      [] OTHER -> l

\* The locales enabled in the remote help center.
ZLocales == {"en-us", "pl"}

\* Content of one translation of one entity: a version token ("" = nothing).
Versions == {"v0", "v1"}

\* ------------------------------------------------------------- meta (json)
\* A JSON mapping of a meta file or of Base._meta: the remote id under key
\* 'id' (0: key absent) and whether key 'webtranslateit_ids' is present.
EmptyJson == [id |-> 0, tids |-> FALSE]
NoFile == [file |-> FALSE, id |-> 0, tids |-> FALSE]

AsFile(j) == [file |-> TRUE, id |-> j.id, tids |-> j.tids]
AsJson(f) == [id |-> f.id, tids |-> f.tids]

\* dict.update: keys of new win, the other keys of old stay.
Update(old, new) ==
    [id |-> IF new.id # 0 THEN new.id ELSE old.id,
     tids |-> old.tids \/ new.tids]

VARIABLES
    cwdIsRoot,  \* the process runs with the root folder as working directory
    present,    \* present[e]: the entity's content files exist locally
    disk,       \* disk[e]: the entity's meta file
    content,    \* content[e][l]: version of the local translation l of e
    tfiles,     \* translation store: the files <<e, key>> it holds
    remote,     \* help center: the set of live records
    nextId,     \* next record id the help center hands out
    clock,      \* help center clock (updated_at)
    task,       \* "idle", "doctor", "export", "remove"
    force,      \* --force of the running task
    comments,   \* disable_article_comments of the running task
    pc,         \* position of the running task
    idx,        \* entity the walk is at (0: none)
    mem,        \* mem[e]: Base._meta of the loaded entity
    pend,       \* answer of the record create, not yet saved
    miss,       \* missing locales fetched for the entity at idx
    tq,         \* translations of the entity at idx still to push
    target,     \* entity given to Remove
    rq,         \* entities whose translation files Remove still has to free
    runs, edits, stops, fails,   \* what the behaviour has used of its bounds
    calls,      \* remote calls issued by the running (or last) task
    run,        \* history of the running (or last) task
    prev,       \* what the task before it left
    ev,         \* the last step taken, with the state it started from
    past,       \* what ever happened: past.known[e], the ids of the records
                \* ever created under the name of e; past.made[e], a create
                \* or an import has succeeded for e; past.lost[e], the id
                \* of the record created for e in a run that was killed
                \* before it wrote the id down; past.outage, the help
                \* center is unreliable for the whole behaviour
    rt          \* a tree on its way through Saver.save and Loader.load:
                \* rt.phase ("none", "new", "saved", "loaded"), rt.tree,
                \* rt.files (the files under the root), rt.loaded (the
                \* entities Loader.load built), rt.error (it raised); for
                \* the Loader of the revision that renames: rt.again (the
                \* entities of the second load), rt.moves (the renames of
                \* the last load), rt.failed (the first load raised)
VARIABLE
    fn          \* a value on its way through the functions of utils:
                \* fn.arg, the input; fn.chain, the functions to apply in
                \* turn; fn.todo, those still to apply;
                \* fn.vals, the values returned so far; fn.raised, the last
                \* call raised an exception

store == <<cwdIsRoot, present, disk, content, tfiles>>
help == <<remote, nextId, clock>>
proc == <<task, force, comments, pc, idx, mem, pend, miss, tq, target, rq>>
used == <<runs, edits, stops, fails>>
hist == <<calls, run, prev, ev, past>>
vars == <<store, help, proc, used, hist, rt, fn>>

\* ------------------------------------------------------------ help center
\* A record: id, kind (zendesk_group), parent (record id, 0 for a category),
\* name (the number of the entity whose display name it carries, 0 for
\* any other name), updated_at, its translations tr[zendesk locale] and
\* comments_disabled.
NoTr == [z \in ZLocales |-> ""]

Alive(id) == \E r \in remote : r.id = id
Rec(id) == CHOOSE r \in remote : r.id = id

\* Deleting a record deletes the records below it.
Below(id) ==
    {r \in remote :
        \/ r.id = id
        \/ r.parent = id
        \/ \E s \in remote : s.parent = id /\ r.parent = s.id}

\* Ids of a set of records, as the list the API returns (by id).
RECURSIVE SortedIds(_)
SortedIds(ids) ==
    IF ids = {} THEN <<>>
    ELSE LET m == CHOOSE x \in ids : \A y \in ids : x <= y
         IN <<m>> \o SortedIds(ids \ {m})

Range(s) == {s[i] : i \in 1 .. Len(s)}

\* ----------------------------------------------------------------- history
NoCalls ==
    [post |-> 0, post_translation |-> 0, put_translation |-> 0, put |-> 0,
     get_items |-> 0, get_item |-> 0, get_missing_locales |-> 0,
     get_translation |-> 0,
     delete_group |-> 0, delete_article |-> 0, raw_delete |-> 0,
     translate_delete |-> 0, translate_move |-> 0]

Count(c, k) == [c EXCEPT ![k] = @ + 1]

\* run.kind: the task; run.failed: a call of the run got a 5xx answer;
\* run.changed: the Doctor pass changed local meta or deleted a record;
\* run.fixed[e]: what Doctor did with e; run.created: entities the Pusher
\* issued a create for; run.posted[e]: the id a create of the run returned
\* for e (0: none); run.second: the run is an Export that follows a clean
\* Export directly; run.sameCfg: it has the disable_article_comments
\* setting of the task before it; run.state: "running", "done", "crashed",
\* "stopped".
NoRun ==
    [kind |-> "none", state |-> "done", failed |-> FALSE, changed |-> FALSE,
     fixed |-> [e \in Entities |-> "none"], created |-> {},
     posted |-> [e \in Entities |-> 0],
     second |-> FALSE, prevWrote |-> FALSE, sameCfg |-> FALSE,
     startPresent |-> [e \in Entities |-> FALSE]]

NoPrev == [clean |-> FALSE, wrote |-> FALSE, cmt |-> FALSE]

NoPast ==
    [known |-> [e \in Entities |-> {}], made |-> [e \in Entities |-> FALSE],
     outage |-> FALSE, lost |-> [e \in Entities |-> 0]]

NoEv ==
    [op |-> "none", e |-> 0, mode |-> "none", st |-> "none", named |-> <<>>,
     ans |-> 0, ret |-> 0, preMem |-> EmptyJson, preDisk |-> NoFile,
     preParent |-> 0, preRemote |-> {}]

Ev(op, e) == [NoEv EXCEPT !.op = op, !.e = e]

\* -------------------------------------------------- Saver.save, Loader.load
\* Names are short texts over a letter, a blank and a punctuation mark.
Chars == {"A", " ", "!"}
MaxName == 2
Names == UNION {[1..n -> Chars] : n \in 1..MaxName}
SubNames == {n \in Names : Len(n) = 1}
\* Bodies: empty, plain, and one with a carriage return.
Bodies == {<<>>, <<"b">>, <<"b", "CR", "b">>}
DefaultDir == <<DEFAULT_LOCALE>>
GroupStem == <<"__group__">>

RECURSIVE LStrip(_)
LStrip(s) == IF s # <<>> /\ Head(s) = " " THEN LStrip(Tail(s)) ELSE s

RECURSIVE RStrip(_)
RStrip(s) ==
    IF s # <<>> /\ s[Len(s)] = " " THEN RStrip(SubSeq(s, 1, Len(s) - 1)) ELSE s

RECURSIVE Collapse(_)
Collapse(s) ==
    IF s = <<>> THEN <<>>
    ELSE IF Head(s) \in {" ", "-"}
         THEN IF Tail(s) # <<>> /\ Head(Tail(s)) \in {" ", "-"}
              THEN Collapse(Tail(s))
              ELSE <<"-">> \o Collapse(Tail(s))
         ELSE <<Head(s)>> \o Collapse(Tail(s))

\* unicodedata.normalize('NFKD', value).encode('ascii', 'ignore'): an
\* accented letter keeps its base letter, a character without an ASCII
\* decomposition is dropped.
RECURSIVE Ascii(_)
Ascii(s) ==
    IF s = <<>> THEN <<>>
    ELSE (CASE Head(s) = "e_acute" -> <<"e">>
            [] Head(s) = "cjk" -> <<>>
            [] OTHER -> <<Head(s)>>) \o Ascii(Tail(s))

IsWord_Punct(c) == c \in {"A", "a", "e", "1", "_", "!"}

\* \w: letters, digits and the underscore.
IsWord(c) == c \in {"A", "a", "e", "1", "_"}
Lower_Swap(c) == IF c = "A" THEN "a" ELSE IF c = "a" THEN "A" ELSE c

\* str.lower
Lower(c) == IF c = "A" THEN "a" ELSE c

\* utils.slugify: characters that are neither word characters, blanks nor
\* hyphens are removed, the ends are stripped, letters are lowered, runs of
\* blanks and hyphens become one hyphen.
slugify(value) ==
    LET ascii == Ascii(value)
        kept == SelectSeq(ascii, LAMBDA c : IsWord(c) \/ c \in {" ", "-"})
        stripped == RStrip(LStrip(kept))
        lowered == [i \in 1..Len(stripped) |-> Lower(stripped[i])]
    IN Collapse(lowered)

\* The texts slugify is tried on: upper and lower letter, digit,
\* underscore, hyphen, blank, punctuation, an accented letter and a
\* character without ASCII decomposition.
SlugChars == {"A", "a", "1", "_", "-", " ", "!", "e_acute", "cjk"}
MaxSlugLen == 3
SlugInputs == UNION {[1..n -> SlugChars] : n \in 0..MaxSlugLen}

\* Locale codes: letters of either case and hyphens.
LocaleChars == {"a", "A", "-"}
MaxLocaleLen == 5
LocaleInputs == UNION {[1..n -> LocaleChars] : n \in 1..MaxLocaleLen}
LocaleChains ==
    {<<"to_iso_locale", "to_zendesk_locale">>,
     <<"to_zendesk_locale", "to_iso_locale">>}

\* utils.to_zendesk_locale on the characters of the code: str.lower
LowerLocale(l) == [i \in 1..Len(l) |-> Lower(l[i])]
\* str.upper
UpperLocale(l) == [i \in 1..Len(l) |-> IF l[i] = "a" THEN "A" ELSE l[i]]

\* locale.split('-')
RECURSIVE Split(_)
Split(l) ==
    IF \A i \in 1..Len(l) : l[i] # "-" THEN <<l>>
    ELSE LET k == CHOOSE i \in 1..Len(l) :
                    l[i] = "-" /\ \A j \in 1..(i - 1) : l[j] # "-"
         IN <<SubSeq(l, 1, k - 1)>> \o Split(SubSeq(l, k + 1, Len(l)))

\* utils.to_iso_locale: a code with a hyphen is split and its second part
\* upper-cased; unpacking more or fewer than two parts raises ValueError.
to_iso_locale(l) ==
    IF \E i \in 1..Len(l) : l[i] = "-"
    THEN IF Len(Split(l)) = 2
         THEN [raised |-> FALSE,
               val |-> Split(l)[1] \o <<"-">> \o UpperLocale(Split(l)[2])]
         ELSE [raised |-> TRUE, val |-> <<>>]
    ELSE [raised |-> FALSE, val |-> l]

NoFn ==
    [arg |-> <<>>, chain |-> <<>>, todo |-> <<>>, vals |-> <<>>, raised |-> FALSE]

\* The value the next function is applied to.
FnValue == IF fn.vals = <<>> THEN fn.arg ELSE fn.vals[Len(fn.vals)]

Returns(v) ==
    /\ fn' = [fn EXCEPT !.todo = Tail(@), !.vals = Append(@, v)]
    /\ UNCHANGED <<store, help, proc, used, hist, rt>>

Raises ==
    /\ fn' = [fn EXCEPT !.todo = <<>>, !.raised = TRUE]
    /\ UNCHANGED <<store, help, proc, used, hist, rt>>

CallSlugify ==
    /\ fn.todo # <<>> /\ Head(fn.todo) = "slugify"
    /\ Returns(slugify(FnValue))

CallToZendeskLocale ==
    /\ fn.todo # <<>> /\ Head(fn.todo) = "to_zendesk_locale"
    /\ Returns(LowerLocale(FnValue))

CallToIsoLocale ==
    /\ fn.todo # <<>> /\ Head(fn.todo) = "to_iso_locale"
    /\ IF to_iso_locale(FnValue).raised
       THEN Raises
       ELSE Returns(to_iso_locale(FnValue).val)

\* os.path.join(path, name): joining an empty name leaves the directory.
Join(dir, name) == IF name = <<>> THEN dir ELSE Append(dir, name)

\* The tree handed to Saver.save: two categories, the first with a section
\* that holds an article; trs, the locales every entity carries a
\* translation for in memory.
Nodes == {"c1", "s", "a", "c2"}
NodeKind(n) ==
    IF n \in {"c1", "c2"} THEN "category" ELSE IF n = "s" THEN "section" ELSE "article"
\* Group.description / Article.body
NodeText(t, n) == IF n = "a" THEN t.body ELSE <<n>>
\* Category.path, Section.path, Article.path
NodePath(t, n) ==
    IF n = "c1" THEN Join(<<>>, slugify(t.name["c1"]))
    ELSE IF n = "c2" THEN Join(<<>>, slugify(t.name["c2"]))
    ELSE IF n = "s" THEN Join(Join(<<>>, slugify(t.name["c1"])), slugify(t.name["s"]))
    ELSE Join(Join(Join(<<>>, slugify(t.name["c1"])), slugify(t.name["s"])), DefaultDir)
UpName(t, n) ==
    IF n = "s" THEN t.name["c1"] ELSE IF n = "a" THEN t.name["s"] ELSE <<>>

Trees ==
    {[name |-> nm, body |-> b, trs |-> ls] :
        nm \in {f \in [Nodes -> Names] : f["s"] \in SubNames /\ f["a"] \in SubNames},
        b \in Bodies,
        ls \in {{}, {DefaultDir}, {DefaultDir, <<"pl">>}}}

NoRt ==
    [phase |-> "none", tree |-> <<>>, files |-> {}, loaded |-> {},
     error |-> FALSE, again |-> {}, moves |-> 0, failed |-> FALSE,
     sent |-> <<>>]

\* What a file holds.  form: "full", a JSON mapping with every key the item
\* writes ('name', for a group also 'description'); "nodesc", one with
\* 'name' alone; "noname", one without 'name'; "empty", an empty mapping or
\* an empty file; "bad", text that is no JSON; "text", a body; "meta", a
\* meta mapping with id (0: no 'id') and tids ('webtranslateit_ids').
NoData == [name |-> <<>>, text |-> <<>>, form |-> "empty", id |-> 0, tids |-> FALSE]
Absent == [NoData EXCEPT !.form = "absent"]
ContentData(name, text, form) ==
    [NoData EXCEPT !.name = name, !.text = text, !.form = form]
BodyData(text) == [NoData EXCEPT !.text = text, !.form = "text"]
MetaData(id, tids) == [NoData EXCEPT !.form = "meta", !.id = id, !.tids = tids]

MetaStem_Flat(kind, stem) == <<".group">>

\* Group.meta_filename, Article.meta_filename
MetaStem(kind, stem) ==
    IF kind = "article" THEN <<".article_">> \o stem ELSE <<".group">>

\* The 'id' of the record Fetcher.fetch built the node from.
NodeId(n) == CASE n = "c1" -> 1 [] n = "s" -> 2 [] n = "a" -> 3 [] n = "c2" -> 4

\* FilesystemClient.save_text / save_json: the file at the path holds the
\* data afterwards (merging a mapping into an older one of the same keys
\* replaces every key).
WriteFile(fs, dir, stem, ext, data) ==
    {f \in fs : ~(f.dir = dir /\ f.stem = stem /\ f.ext = ext)}
        \cup {[dir |-> dir, stem |-> stem, ext |-> ext, data |-> data]}

HasFile(fs, dir, stem, ext) ==
    \E f \in fs : f.dir = dir /\ f.stem = stem /\ f.ext = ext

FileData(fs, dir, stem, ext) ==
    (CHOOSE f \in fs : f.dir = dir /\ f.stem = stem /\ f.ext = ext).data

\* open(path, 'r').read(): universal newlines, a carriage return is read as
\* a line feed, and one followed by a line feed is dropped.
RECURSIVE read_newlines(_)
read_newlines(t) ==
    IF t = <<>> THEN <<>>
    ELSE IF Head(t) = "CR"
         THEN IF Tail(t) # <<>> /\ Head(Tail(t)) = "LF"
              THEN read_newlines(Tail(t))
              ELSE <<"LF">> \o read_newlines(Tail(t))
         ELSE <<Head(t)>> \o read_newlines(Tail(t))

\* FilesystemClient.read_text: '' for a missing file.
read_text(fs, dir, stem, ext) ==
    IF HasFile(fs, dir, stem, ext)
    THEN read_newlines(FileData(fs, dir, stem, ext).text) ELSE <<>>

read_json_Strict(fs, dir, stem, ext) ==
    IF HasFile(fs, dir, stem, ext) THEN FileData(fs, dir, stem, ext)
    ELSE [NoData EXCEPT !.form = "bad"]

\* FilesystemClient.read_json: {} for a missing or empty file.
read_json(fs, dir, stem, ext) ==
    IF HasFile(fs, dir, stem, ext) THEN FileData(fs, dir, stem, ext) ELSE NoData

\* json.loads raises ValueError on text that is no JSON.
JsonRaises(fs, dir, stem, ext) == read_json(fs, dir, stem, ext).form = "bad"

\* 'name' in content
HasName(c) == c.form \in {"full", "nodesc"}

\* Saver._save_item: the meta and to_content() of the item; for an article
\* Saver.save adds the body file.  item.translations is not read.
SaveItem(fs, t, n) ==
    LET dir == NodePath(t, n)
        stem == IF n = "a" THEN slugify(t.name[n]) ELSE GroupStem
        data == ContentData(t.name[n], IF n = "a" THEN <<>> ELSE NodeText(t, n), "full")
        fs0 == WriteFile(fs, dir, MetaStem(NodeKind(n), stem), "meta",
                         MetaData(NodeId(n), FALSE))
        fs1 == WriteFile(fs0, dir, stem, "json", data)
    IN IF n = "a"
       THEN WriteFile(fs1, dir, stem, "mkdown", BodyData(t.body))
       ELSE fs1

\* Saver.save: categories in order, each with its sections and articles.
SavedFiles(t) == SaveItem(SaveItem(SaveItem(SaveItem({}, t, "c1"), t, "s"), t, "a"), t, "c2")

\* FilesystemClient.read_directories: the directories right below dir.
SubDirs(fs, dir) ==
    {f.dir[Len(dir) + 1] : f \in {g \in fs : /\ Len(g.dir) > Len(dir)
                                            /\ SubSeq(g.dir, 1, Len(dir)) = dir}}

\* Loader._group_locales: the locales of the files __group__.<locale>.json
\* of the directory.
GroupLocales(fs, dir) ==
    {f.stem[2] : f \in {g \in fs : /\ g.dir = dir /\ g.ext = "json"
                                  /\ Len(g.stem) = 2 /\ g.stem[1] = GroupStem[1]}}

\* Group.content_translation_filepath: the stem of the file of a locale
\* ('' is the default locale, the content file itself).
GroupTrStem(l) == IF l = "" THEN GroupStem ELSE <<GroupStem[1], l>>

\* Loader._load_category / _load_section with _group_translations: the meta
\* (id, translation ids), the content file or the stub {'name': basename},
\* and one translation for every locale file that holds a name.
LoadGroup(fs, kind, dir, up) ==
    LET meta == read_json(fs, dir, MetaStem(kind, <<>>), "meta")
        c0 == read_json(fs, dir, GroupStem, "json")
        c == IF c0.form = "empty"
             THEN ContentData(dir[Len(dir)], <<>>, "nodesc") ELSE c0
        ls == {l \in GroupLocales(fs, dir) \cup {""} :
                  HasName(read_json(fs, dir, GroupTrStem(l), "json"))}
    IN [kind |-> kind, name |-> c.name, text |-> c.text, up |-> up,
        id |-> meta.id, tids |-> meta.tids,
        trs |-> {[locale |-> IF l = "" THEN DefaultDir ELSE <<l>>,
                  name |-> read_json(fs, dir, GroupTrStem(l), "json").name,
                  text |-> read_json(fs, dir, GroupTrStem(l), "json").text] :
                    l \in ls}]

\* What makes loading the group raise: a meta, content or translation file
\* that is no JSON (ValueError), content['name'] of a content file without
\* name (KeyError in from_dict), content['description'] of a translation
\* source that has a name and no description (KeyError in
\* _group_translations).
GroupRaises(fs, dir) ==
    \/ JsonRaises(fs, dir, MetaStem("group", <<>>), "meta")
    \/ read_json(fs, dir, GroupStem, "json").form \in {"bad", "noname"}
    \/ \E l \in GroupLocales(fs, dir) \cup {""} :
          read_json(fs, dir, GroupTrStem(l), "json").form \in {"bad", "nodesc"}

\* Loader._filter_article_names: the files of the default-locale directory
\* that end with .mkdown, without their extension; os.path.splitext leaves
\* the name '.mkdown' of a file with an empty stem whole.
ArticleNames(fs, sdir) ==
    {IF f.stem = <<>> THEN <<".mkdown">> ELSE f.stem :
        f \in {g \in fs : g.dir = Join(sdir, DefaultDir) /\ g.ext = "mkdown"}}

\* Loader._article_locales: every directory of the section is taken for a
\* locale.
ArticleLocales(fs, sdir) == SubDirs(fs, sdir)

\* Loader._load_article with _article_translations: a locale whose content
\* file holds a name is a translation, with whatever read_text finds for
\* its body.
LoadArticle(fs, sdir, stem, up) ==
    LET dir == Join(sdir, DefaultDir)
        meta == read_json(fs, dir, MetaStem("article", stem), "meta")
        c0 == read_json(fs, dir, stem, "json")
        nm == IF c0.form = "empty" THEN stem ELSE c0.name
    IN [kind |-> "article", name |-> nm, text |-> read_text(fs, dir, stem, "mkdown"),
        up |-> up, id |-> meta.id, tids |-> meta.tids,
        trs |-> {[locale |-> l,
                  name |-> read_json(fs, Join(sdir, l), stem, "json").name,
                  text |-> read_text(fs, Join(sdir, l), stem, "mkdown")] :
                    l \in {d \in ArticleLocales(fs, sdir) :
                             HasName(read_json(fs, Join(sdir, d), stem, "json"))}}]

ArticleRaises(fs, sdir, stem) ==
    \/ JsonRaises(fs, Join(sdir, DefaultDir), MetaStem("article", stem), "meta")
    \/ read_json(fs, Join(sdir, DefaultDir), stem, "json").form \in {"bad", "noname"}
    \/ \E l \in ArticleLocales(fs, sdir) : JsonRaises(fs, Join(sdir, l), stem, "json")

\* The directories Loader.load takes for categories and for sections.
CategoryDirs(fs) == {<<c>> : c \in SubDirs(fs, <<>>)}
SectionDirs(fs) ==
    UNION {{Append(c, d) : d \in SubDirs(fs, c)} : c \in CategoryDirs(fs)}

\* Loader.load: every directory of the root is a category, every directory
\* of a category a section, every body file of its default-locale
\* directory an article.
LoadedFrom(fs) ==
    {LoadGroup(fs, "category", c, <<>>) : c \in CategoryDirs(fs)}
       \cup {LoadGroup(fs, "section", d, LoadGroup(fs, "category", <<d[1]>>, <<>>).name) :
                d \in SectionDirs(fs)}
       \cup UNION {{LoadArticle(fs, d, a, LoadGroup(fs, "section", d, <<>>).name) :
                        a \in ArticleNames(fs, d)} : d \in SectionDirs(fs)}

\* An exception leaves Loader.load: nothing is caught on the way.
LoadRaises(fs) ==
    \/ \E c \in CategoryDirs(fs) \cup SectionDirs(fs) : GroupRaises(fs, c)
    \/ \E d \in SectionDirs(fs) : \E a \in ArticleNames(fs, d) : ArticleRaises(fs, d, a)

\* ------------------------------------- Loader of filesystem.py (renaming)
\* What a load has done so far: the files under the root, the entities
\* built, the renames made, and whether it has raised.
NoHeal(fs) == [files |-> fs, ents |-> {}, moves |-> 0, error |-> FALSE]

Under(f, d) == Len(f.dir) >= Len(d) /\ SubSeq(f.dir, 1, Len(d)) = d

\* os.path.exists / os.path.isdir of a directory: it holds some file.
IsDir(fs, d) == \E f \in fs : Under(f, d)

\* os.listdir gives the names in any order: the names as a list, in one
\* order or in the reverse one.
RECURSIVE Listed(_)
Listed(names) ==
    IF names = {} THEN <<>>
    ELSE LET n == CHOOSE x \in names : TRUE IN <<n>> \o Listed(names \ {n})
Reverse(q) == [i \in 1 .. Len(q) |-> q[Len(q) + 1 - i]]
ListDir(names, rev) == IF rev THEN Reverse(Listed(names)) ELSE Listed(names)

\* FilesystemClient.move on a directory: nothing if old does not exist;
\* shutil.move puts old inside new when new is a directory, and raises
\* when the destination exists.
move_dir(h, old, new) ==
    IF ~IsDir(h.files, old) THEN h
    ELSE LET dst == IF IsDir(h.files, new) THEN Append(new, old[Len(old)]) ELSE new
         IN IF IsDir(h.files, dst)
            THEN [h EXCEPT !.error = TRUE]
            ELSE [h EXCEPT
                    !.moves = @ + 1,
                    !.files = {IF Under(f, old)
                               THEN [f EXCEPT !.dir = dst \o SubSeq(f.dir, Len(old) + 1,
                                                                    Len(f.dir))]
                               ELSE f : f \in h.files}]

\* FilesystemClient.move on a file: nothing if old does not exist; a file
\* at the new path is replaced.
move_file(h, dir, old, new, ext) ==
    IF ~HasFile(h.files, dir, old, ext) THEN h
    ELSE [h EXCEPT
            !.moves = @ + 1,
            !.files = WriteFile({f \in h.files :
                                   ~(f.dir = dir /\ f.stem = old /\ f.ext = ext)},
                                dir, new, ext, FileData(h.files, dir, old, ext))]

\* Loader._slugify_name on the name '.article_<name>' of a meta file: the
\* dot is dropped by slugify and put back, the rest is slugified behind
\* the underscore.
MetaSlug(name) == <<".article_">> \o Tail(slugify(<<"_">> \o name))

\* What the renaming Loader builds for an item: the entity of LoadGroup or
\* LoadArticle with the filename it was given.
Healed(entity, filename) ==
    [kind |-> entity.kind, name |-> entity.name, text |-> entity.text,
     id |-> entity.id, tids |-> entity.tids, trs |-> entity.trs,
     filename |-> filename]

\* Loader._load_article with _slugify_article on the meta, content and
\* body paths; the stub of a missing content file carries the name the
\* file had.
_load_article(h, spath, name) ==
    IF h.error THEN h
    ELSE
    LET dir == Append(spath, DefaultDir)
        slug == slugify(name)
        h1 == IF <<".article_">> \o name # MetaSlug(name)
              THEN move_file(h, dir, <<".article_">> \o name, MetaSlug(name), "meta")
              ELSE h
        h2 == IF name # slug THEN move_file(h1, dir, name, slug, "json") ELSE h1
        h3 == IF name # slug THEN move_file(h2, dir, name, slug, "mkdown") ELSE h2
        meta == read_json(h3.files, dir, MetaSlug(name), "meta")
        c0 == read_json(h3.files, dir, slug, "json")
        loaded == LoadArticle(h3.files, spath, slug, <<>>)
        article == [loaded EXCEPT !.name = IF c0.form = "empty" THEN name ELSE c0.name,
                                 !.id = meta.id, !.tids = meta.tids]
    IN [h3 EXCEPT !.ents = @ \cup {Healed(article, slug)}]

RECURSIVE _fill_articles(_, _, _)
_fill_articles(h, spath, names) ==
    IF names = <<>> THEN h
    ELSE _fill_articles(_load_article(h, spath, Head(names)), spath, Tail(names))

\* Loader._load_section with _slugify_section, _group_translations and
\* _fill_articles; the stub of a missing content file carries the name the
\* directory had.  The paths are relative: os.listdir raises when the
\* process does not run in the root, or when the directory is not there.
_load_section(h, cpath, name, rev) ==
    IF h.error THEN h
    ELSE
    LET slug == slugify(name)
        spath == Join(cpath, slug)
        h1 == IF name # slug
              THEN IF cwdIsRoot THEN move_dir(h, Append(cpath, name), spath) ELSE h
              ELSE h
        c0 == read_json(h1.files, spath, GroupStem, "json")
        loaded == LoadGroup(h1.files, "section", spath, <<>>)
        section == [loaded EXCEPT !.name = IF c0.form = "empty" THEN name ELSE c0.name]
    IN IF h1.error THEN h1
       ELSE IF ~cwdIsRoot \/ ~IsDir(h1.files, spath) THEN [h1 EXCEPT !.error = TRUE]
       ELSE _fill_articles([h1 EXCEPT !.ents = @ \cup {Healed(section, slug)}], spath,
                           ListDir(ArticleNames(h1.files, spath), rev))

RECURSIVE _fill_sections(_, _, _, _)
_fill_sections(h, cpath, names, rev) ==
    IF names = <<>> THEN h
    ELSE _fill_sections(_load_section(h, cpath, Head(names), rev), cpath, Tail(names), rev)

\* Loader._fill_category: _load_category with _slugify_category (absolute
\* paths), _group_translations and _fill_sections.
_fill_category(h, name, rev) ==
    IF h.error THEN h
    ELSE
    LET slug == slugify(name)
        cpath == Join(<<>>, slug)
        h1 == IF name # slug THEN move_dir(h, <<name>>, cpath) ELSE h
        category == LoadGroup(h1.files, "category", cpath, <<>>)
    IN IF h1.error THEN h1
       ELSE IF ~cwdIsRoot \/ ~IsDir(h1.files, cpath) \/ cpath = <<>>
       THEN [h1 EXCEPT !.error = TRUE]
       ELSE _fill_sections([h1 EXCEPT !.ents = @ \cup {Healed(category, slug)}], cpath,
                           ListDir(SubDirs(h1.files, cpath), rev), rev)

RECURSIVE load_categories(_, _, _)
load_categories(h, names, rev) ==
    IF names = <<>> THEN h
    ELSE load_categories(_fill_category(h, Head(names), rev), Tail(names), rev)

\* Loader.load of filesystem.py on the files fs.
load(fs, rev) == load_categories(NoHeal(fs), ListDir(SubDirs(fs, <<>>), rev), rev)

\* The trees a user can have written by hand: a category directory c with
\* a section directory s that holds an article a, and possibly a second
\* category directory c2; content and meta files may be absent.
HandNames == {<<"a">>, <<"A">>, <<"!">>, <<"a", " ">>}
HandArticleNames == {<<"a">>, <<"A">>, <<" ", "A">>}
HandTree(c, c2, s, a, cc, sc, ac, am) ==
    LET sec == <<c, s>>
        art == <<c, s, DefaultDir>>
    IN {[dir |-> art, stem |-> a, ext |-> "mkdown", data |-> BodyData(<<"b">>)]}
       \cup (IF cc THEN {[dir |-> <<c>>, stem |-> GroupStem, ext |-> "json",
                          data |-> ContentData(c, <<"c1">>, "full")]} ELSE {})
       \cup (IF c2 # <<>> /\ c2 # c THEN {[dir |-> <<c2>>, stem |-> GroupStem, ext |-> "json",
                                 data |-> ContentData(c2, <<"c2">>, "full")]} ELSE {})
       \cup (IF sc THEN {[dir |-> sec, stem |-> GroupStem, ext |-> "json",
                          data |-> ContentData(s, <<"s">>, "full")]} ELSE {})
       \cup (IF ac THEN {[dir |-> art, stem |-> a, ext |-> "json",
                          data |-> ContentData(a, <<>>, "full")]} ELSE {})
       \cup (IF am THEN {[dir |-> art, stem |-> <<".article_">> \o a, ext |-> "meta",
                          data |-> MetaData(3, FALSE)]} ELSE {})

HandTrees ==
    {HandTree(c, c2, s, a, cc, sc, ac, am) :
        c \in HandNames, c2 \in HandNames \cup {<<>>}, s \in HandNames \ {<<"a", " ">>},
        a \in HandArticleNames, cc \in BOOLEAN, sc \in BOOLEAN, ac \in BOOLEAN,
        am \in BOOLEAN}

\* main.py: a task loads the tree (filesystem.loader(root).load()); the
\* first load of the root and the one after it.
HealLoad ==
    /\ rt.phase \in {"hand", "healed"}
    /\ \E rev \in BOOLEAN :
        LET h == load(rt.files, rev) IN
        rt' = IF rt.phase = "hand"
              THEN [rt EXCEPT !.phase = "healed", !.files = h.files,
                              !.loaded = h.ents, !.moves = h.moves,
                              !.error = h.error, !.failed = h.error]
              ELSE [rt EXCEPT !.phase = "again", !.files = h.files,
                              !.again = h.ents, !.moves = h.moves,
                              !.error = h.error]
    /\ UNCHANGED <<store, help, proc, used, hist, fn>>

\* A root as a user left it: a category "a" with a section "aa" that holds
\* an article "a"; every file but the article's body may be absent, and the
\* files may hold less than the tool writes.
Disk(cm, cc, cp, sm, sc, am, ac, pc_, pb) ==
    LET cat == <<<<"a">>>>
        sec == <<<<"a">>, <<"a", "a">>>>
        art == Append(sec, DefaultDir)
        pl == Append(sec, <<"pl">>)
        all == {[dir |-> cat, stem |-> MetaStem("group", <<>>), ext |-> "meta", data |-> cm],
                [dir |-> cat, stem |-> GroupStem, ext |-> "json", data |-> cc],
                [dir |-> cat, stem |-> GroupTrStem("pl"), ext |-> "json", data |-> cp],
                [dir |-> sec, stem |-> MetaStem("group", <<>>), ext |-> "meta", data |-> sm],
                [dir |-> sec, stem |-> GroupStem, ext |-> "json", data |-> sc],
                [dir |-> art, stem |-> MetaStem("article", <<"a">>), ext |-> "meta", data |-> am],
                [dir |-> art, stem |-> <<"a">>, ext |-> "json", data |-> ac],
                [dir |-> art, stem |-> <<"a">>, ext |-> "mkdown", data |-> BodyData(<<"b">>)],
                [dir |-> pl, stem |-> <<"a">>, ext |-> "json", data |-> pc_],
                [dir |-> pl, stem |-> <<"a">>, ext |-> "mkdown", data |-> pb]}
    IN {f \in all : f.data # Absent}

GroupContents(name, text) ==
    {Absent, ContentData(name, text, "full"), ContentData(name, <<>>, "nodesc"),
     ContentData(<<>>, <<>>, "empty"), ContentData(<<>>, <<>>, "bad")}

Disks ==
    {Disk(cm, cc, cp, sm, sc, am, ac, pc_, pb) :
        cm \in {Absent, MetaData(1, TRUE), ContentData(<<>>, <<>>, "bad")},
        cc \in GroupContents(<<"A">>, <<"c1">>),
        cp \in GroupContents(<<"P">>, <<"p1">>),
        sm \in {Absent, MetaData(2, TRUE)},
        sc \in {Absent, ContentData(<<"A", "A">>, <<"s">>, "full")},
        am \in {Absent, MetaData(3, TRUE)},
        ac \in {Absent, ContentData(<<"A">>, <<>>, "full"), ContentData(<<>>, <<>>, "bad")},
        pc_ \in {Absent, ContentData(<<"P">>, <<>>, "full"), ContentData(<<>>, <<>>, "bad")},
        pb \in {Absent, BodyData(<<"p">>)}}

\* ImportTask / ExportTask seen from the tree: filesystem.saver(root).save
RtSave ==
    /\ rt.phase = "new"
    /\ rt' = [rt EXCEPT !.phase = "saved", !.files = SavedFiles(rt.tree)]
    /\ UNCHANGED <<store, help, proc, used, hist, fn>>

\* filesystem.loader(root).load
RtLoad ==
    /\ rt.phase = "saved"
    /\ rt' = [rt EXCEPT !.phase = "loaded",
                        !.error = LoadRaises(rt.files),
                        !.loaded = IF LoadRaises(rt.files) THEN {}
                                   ELSE LoadedFrom(rt.files)]
    /\ UNCHANGED <<store, help, proc, used, hist, fn>>

\* ------------------------------------------------- MoveTask of translator.py
\* A section about to be moved to another category: what its .group.meta
\* holds ("absent": no file; "noids": no 'webtranslateit_ids'; "ids": the
\* list TranslateTask wrote), whether its __group__.json exists, whether
\* the destination category already holds a directory of its name, and
\* the articles below it, each with its meta and whether its .json exists.
MaxMoved == 2
MetaForms == {"absent", "noids", "ids"}
MovedArticles ==
    UNION {[1..n -> [meta : MetaForms, json : BOOLEAN]] : n \in 0..MaxMoved}
MovedSections ==
    [meta : MetaForms, json : BOOLEAN, taken : BOOLEAN, articles : MovedArticles]

\* The id WebTranslateItClient.create returned for a file of an owner.
TranslateId(owner, file) == <<owner, file>>
ArticleName(i) == IF i = 1 THEN "a1" ELSE "a2"

\* Group.path after move_to: os.path.join(group.path, basename(self.path)),
\* and the file names built on it.
MovedPath == <<"dest", "s">>
MovedFile(name, ext) == MovedPath \o <<name, ext>>

\* WebTranslateItClient.move: a PUT for the file id naming the new path.
TranslateMove(id, path) == [op |-> "translate_move", id |-> id, path |-> path]

\* The for loop of MoveTask.execute over group.children, from the k-th
\* listed article on: cid is the value of content_translate_id on entry.
\* Unpacking translate_ids raises for an article without meta or without
\* ids, open(new_path) in translate.move raises for a missing file.
RECURSIVE MoveChildren(_, _, _, _)
MoveChildren(arts, order, k, cid) ==
    IF k > Len(order) THEN [sent |-> <<>>, cid |-> cid, error |-> FALSE]
    ELSE LET i == order[k]
             body == TranslateMove(TranslateId(ArticleName(i), "body"),
                                   MovedFile(ArticleName(i), "md"))
             own == TranslateId(ArticleName(i), "content")
             cont == TranslateMove(own, MovedFile(ArticleName(i), "json"))
         IN IF arts[i].meta # "ids"
            THEN [sent |-> <<>>, cid |-> cid, error |-> TRUE]
            ELSE IF ~arts[i].json
            THEN [sent |-> <<body>>, cid |-> own, error |-> TRUE]
            ELSE LET rest == MoveChildren(arts, order, k + 1, own)
                 IN [rest EXCEPT !.sent = <<body, cont>> \o rest.sent]

\* MoveTask.execute for a directory source: the requests it sends, in
\* order, and whether it raised.  rev: os.listdir lists the articles in
\* either order.
MoveSection(g, rev) ==
    LET n == Len(g.articles)
        order == [k \in 1..n |-> IF rev THEN n + 1 - k ELSE k]
        put == [op |-> "move_section", id |-> <<"s", "zendesk">>, path |-> <<"dest">>]
        kids == MoveChildren(g.articles, order, 1, TranslateId("s", "content"))
        own == TranslateMove(kids.cid, MovedFile("__group__", "json"))
    IN IF g.meta # "ids" THEN [sent |-> <<>>, error |-> TRUE]
       ELSE IF g.taken THEN [sent |-> <<put>>, error |-> TRUE]
       ELSE IF kids.error THEN [sent |-> <<put>> \o kids.sent, error |-> TRUE]
       ELSE IF ~g.json THEN [sent |-> <<put>> \o kids.sent, error |-> TRUE]
       ELSE [sent |-> <<put>> \o kids.sent \o <<own>>, error |-> FALSE]

\* translator.py move <section> <category>
MoveSectionTask ==
    /\ rt.phase = "section"
    /\ \E rev \in BOOLEAN :
        LET m == MoveSection(rt.tree, rev) IN
        rt' = [rt EXCEPT !.phase = "moved", !.sent = m.sent, !.error = m.error]
    /\ UNCHANGED <<store, help, proc, used, hist, fn>>

\* ------------------------------------------------------ DoctorTask of main.py
\* The records a help center of InitMain can hold: 1 and 2 are categories,
\* 3 and 4 sections under 1 and under 2, 5 and 6 articles under 3 and 4.
MainEntity(i) ==
    CHOOSE e \in Entities :
        IF i <= 2 THEN IsCategory(e) ELSE IF i <= 4 THEN IsSection(e) ELSE IsArticle(e)
MainParent(i) == IF i <= 2 THEN 0 ELSE i - 2

\* -------------------------------------------------------------------- Init
\* A freshly written local tree, nothing exported yet; it may already have
\* been uploaded to the translation store (TranslateTask), which leaves the
\* translation ids in every meta file.
Files ==
    /\ cwdIsRoot \in BOOLEAN
    /\ present = [e \in Entities |-> TRUE]
    /\ \E translated \in BOOLEAN :
        /\ disk = [e \in Entities |->
                    IF translated THEN [file |-> TRUE, id |-> 0, tids |-> TRUE]
                    ELSE NoFile]
        /\ tfiles = IF translated
                    THEN {<<e, "content">> : e \in Entities}
                         \cup {<<e, "body">> : e \in {d \in Entities : IsArticle(d)}}
                    ELSE {}
    /\ content = [e \in Entities |-> [l \in Range(LocalLocales) |-> "v0"]]
    /\ remote = {}
    /\ nextId = 1
    /\ clock = 1
    /\ task = "idle"
    /\ force = FALSE
    /\ comments = FALSE
    /\ pc = "idle"
    /\ idx = 0
    /\ mem = [e \in Entities |-> EmptyJson]
    /\ pend = EmptyJson
    /\ miss = {}
    /\ tq = <<>>
    /\ target = 0
    /\ rq = <<>>
    /\ calls = NoCalls
    /\ run = NoRun
    /\ prev = NoPrev
    /\ ev = NoEv

Init ==
    /\ Files
    /\ runs = 0
    /\ edits = 0
    /\ stops = 0
    /\ fails = 0
    /\ past = NoPast
    /\ rt = NoRt
    /\ fn = NoFn

\* The same tree, one task run against a help center that may answer any
\* call with a 5xx status; nobody edits and nothing is killed.
InitOutage ==
    /\ Files
    /\ runs = MaxRuns - 1
    /\ edits = MaxEdits
    /\ stops = MaxStops
    /\ fails = 0
    /\ past = [NoPast EXCEPT !.outage = TRUE]
    /\ rt = NoRt
    /\ fn = NoFn

\* An empty root and a tree in memory, about to be saved.
InitRound ==
    /\ Files
    /\ runs = 0
    /\ edits = 0
    /\ stops = 0
    /\ fails = 0
    /\ past = NoPast
    /\ \E t \in Trees : rt = [NoRt EXCEPT !.phase = "new", !.tree = t]
    /\ fn = NoFn

\* The same tree in front of a help center that holds up to two categories
\* of the tree's category name, a section of the tree's section name under
\* either, and an article of the tree's article name under either section;
\* the meta files carry no id or the id of a record that is or was in the
\* help center.
HelpCenters ==
    {h \in SUBSET {[id |-> i, kind |-> ZendeskGroup(MainEntity(i)),
                    parent |-> MainParent(i), name |-> MainEntity(i), upd |-> 1,
                    tr |-> [NoTr EXCEPT ![to_zendesk_locale(DEFAULT_LOCALE)] = "v0"],
                    cd |-> FALSE] : i \in 1 .. 6} :
        \A r \in h : r.parent = 0 \/ \E q \in h : q.id = r.parent}

InitMain ==
    /\ cwdIsRoot \in BOOLEAN
    /\ present = [e \in Entities |-> TRUE]
    /\ disk \in [Entities -> {NoFile} \cup {[file |-> TRUE, id |-> i, tids |-> FALSE] :
                                             i \in 1 .. 6}]
    /\ \A e \in Entities : disk[e].file => MainEntity(disk[e].id) = e
    /\ tfiles = {}
    /\ content = [e \in Entities |-> [l \in Range(LocalLocales) |-> "v0"]]
    /\ remote \in HelpCenters
    /\ nextId = 7
    /\ clock = 2
    /\ task = "idle"
    /\ force = FALSE
    /\ comments = FALSE
    /\ pc = "idle"
    /\ idx = 0
    /\ mem = [e \in Entities |-> EmptyJson]
    /\ pend = EmptyJson
    /\ miss = {}
    /\ tq = <<>>
    /\ target = 0
    /\ rq = <<>>
    /\ calls = NoCalls
    /\ run = NoRun
    /\ prev = NoPrev
    /\ ev = NoEv
    /\ runs = MaxRuns - 1
    /\ edits = MaxEdits
    /\ stops = MaxStops
    /\ fails = 0
    /\ past = [NoPast EXCEPT !.outage = TRUE]
    /\ rt = NoRt
    /\ fn = NoFn

\* A tree written by hand, about to be loaded by the renaming Loader.
InitHeal ==
    /\ Files
    /\ runs = 0
    /\ edits = 0
    /\ stops = 0
    /\ fails = 0
    /\ past = NoPast
    /\ \E t \in HandTrees : rt = [NoRt EXCEPT !.phase = "hand", !.files = t]
    /\ fn = NoFn

\* A section of the local tree named as the source of a move.
InitMoveSection ==
    /\ Files
    /\ runs = 0
    /\ edits = 0
    /\ stops = 0
    /\ fails = 0
    /\ past = NoPast
    /\ \E g \in MovedSections : rt = [NoRt EXCEPT !.phase = "section", !.tree = g]
    /\ fn = NoFn

\* A root as a user left it, about to be loaded.
InitLoad ==
    /\ Files
    /\ runs = 0
    /\ edits = 0
    /\ stops = 0
    /\ fails = 0
    /\ past = NoPast
    /\ \E d \in Disks : rt = [NoRt EXCEPT !.phase = "saved", !.files = d]
    /\ fn = NoFn

\* A text about to be slugified twice, or a locale code about to be
\* converted there and back.
InitUtils ==
    /\ Files
    /\ runs = 0
    /\ edits = 0
    /\ stops = 0
    /\ fails = 0
    /\ past = NoPast
    /\ rt = NoRt
    /\ \/ \E s \in SlugInputs :
            fn = [NoFn EXCEPT !.arg = s, !.chain = <<"slugify", "slugify">>,
                              !.todo = <<"slugify", "slugify">>]
       \/ \E l \in LocaleInputs, c \in LocaleChains :
            fn = [NoFn EXCEPT !.arg = l, !.chain = c, !.todo = c]

\* ------------------------------------------------------------ environment
\* An edit ends every "no edits in between".
Edited ==
    /\ task = "idle"
    /\ runs < MaxRuns
    /\ edits < MaxEdits
    /\ edits + stops + fails < MaxTrouble
    /\ edits' = edits + 1
    /\ prev' = NoPrev
    /\ calls' = NoCalls
    /\ run' = NoRun
    /\ UNCHANGED <<proc, runs, stops, fails>>

\* Somebody deletes a record in the help center.
RemoteDelete ==
    /\ Edited
    /\ \E r \in remote :
        /\ remote' = remote \ Below(r.id)
        /\ ev' = Ev("RemoteDelete", r.name)
    /\ UNCHANGED <<store, nextId, clock>>
    /\ UNCHANGED past
    /\ UNCHANGED <<rt, fn>>

\* Somebody renames a record in the help center.
RemoteRename ==
    /\ Edited
    /\ \E r \in remote :
        /\ r.name # 0
        /\ remote' = (remote \ {r}) \cup {[r EXCEPT !.name = 0, !.upd = clock]}
        /\ ev' = Ev("RemoteRename", r.name)
    /\ clock' = clock + 1
    /\ UNCHANGED <<store, nextId>>
    /\ UNCHANGED past
    /\ UNCHANGED <<rt, fn>>

\* Somebody edits a record in the help center without renaming it.
RemoteTouch ==
    /\ Edited
    /\ \E r \in remote :
        /\ remote' = (remote \ {r}) \cup {[r EXCEPT !.upd = clock]}
        /\ ev' = Ev("RemoteTouch", r.name)
    /\ clock' = clock + 1
    /\ UNCHANGED <<store, nextId>>
    /\ UNCHANGED past
    /\ UNCHANGED <<rt, fn>>

\* Somebody creates by hand a record with the display name of entity e,
\* under any live record of the parent's kind.
RemoteAdd ==
    /\ Edited
    /\ \E e \in Entities :
       \E p \in {0} \cup {r.id : r \in remote} :
        /\ IF IsCategory(e) THEN p = 0
           ELSE p # 0 /\ Rec(p).kind = ZendeskGroup(Parent(e))
        /\ remote' = remote \cup
              {[id |-> nextId, kind |-> ZendeskGroup(e), parent |-> p,
                name |-> e, upd |-> clock,
                tr |-> [NoTr EXCEPT ![to_zendesk_locale(DEFAULT_LOCALE)] = "v0"],
                cd |-> FALSE]}
        /\ ev' = Ev("RemoteAdd", e)
        /\ past' = [past EXCEPT !.known[e] = @ \cup {nextId}]
    /\ nextId' = nextId + 1
    /\ clock' = clock + 1
    /\ UNCHANGED store
    /\ UNCHANGED <<rt, fn>>

\* Somebody edits a local translation.
LocalEdit ==
    /\ Edited
    /\ \E e \in Entities : \E l \in Range(LocalLocales) :
        /\ present[e]
        /\ content[e][l] = "v0"
        /\ content' = [content EXCEPT ![e][l] = "v1"]
        /\ ev' = Ev("LocalEdit", e)
    /\ UNCHANGED <<cwdIsRoot, present, disk, tfiles, help>>
    /\ UNCHANGED past
    /\ UNCHANGED <<rt, fn>>

\* ------------------------------------------------------- FilesystemClient
\* Variant: the answer is dropped, the mapping on disk is written back.
save_json_Dropped(file, data) == AsJson(file)

\* save_json: merges onto the mapping on disk when os.path.exists(path)
\* finds the file; path is not resolved against the root folder there, so
\* the file is found only when the working directory is the root folder.
\* Returns the mapping written.
save_json(file, data) ==
    IF cwdIsRoot /\ file.file THEN Update(AsJson(file), data) ELSE data

\* Loader.load / load_from_path: Base._meta of every entity read from disk.
Loaded == [e \in Entities |-> IF present[e] THEN AsJson(disk[e]) ELSE EmptyJson]

\* The entity the walk visits after i (0: the walk is over).
NextIdx(i) ==
    LET later == {e \in Entities : e > i /\ present[e]}
    IN IF later = {} THEN 0 ELSE CHOOSE e \in later : \A d \in later : e <= d

\* ------------------------------------------------------------ transport
\* The answers a call can get: 2xx, or 5xx while the behaviour may still fail.
Statuses ==
    IF past.outage \/ (fails < MaxFails /\ edits + stops + fails < MaxTrouble)
    THEN {"ok", "fail"} ELSE {"ok"}

Failed(st) == IF st = "fail" THEN 1 ELSE 0

\* ----------------------------------------------------------- task frame
Start(kind, frc, cmt) ==
    /\ task = "idle"
    /\ runs < MaxRuns
    /\ runs' = runs + 1
    /\ task' = kind
    /\ force' = frc
    /\ comments' = cmt
    /\ mem' = Loaded
    /\ calls' = NoCalls
    /\ run' = [NoRun EXCEPT !.kind = kind, !.state = "running",
                            !.second = (kind = "export" /\ prev.clean),
                            !.prevWrote = prev.wrote,
                            !.sameCfg = (prev.cmt = cmt),
                            !.startPresent = present]
    /\ prev' = NoPrev
    /\ pend' = EmptyJson
    /\ miss' = {}
    /\ tq' = <<>>
    /\ UNCHANGED <<store, help, edits, stops, fails>>

Wrote(c) == c.post + c.post_translation + c.put_translation + c.put > 0

\* The task returns (state "done") or dies of an uncaught exception
\* (state "crashed").
End(state, c, r) ==
    /\ task' = "idle"
    /\ pc' = "idle"
    /\ idx' = 0
    /\ run' = [r EXCEPT !.state = state]
    /\ prev' = IF state = "done" /\ r.kind = "export"
               THEN [clean |-> ~r.failed, wrote |-> Wrote(c), cmt |-> comments]
               ELSE NoPrev

\* The process is killed between two steps.
Stop ==
    /\ task # "idle"
    /\ stops < MaxStops
    /\ edits + stops + fails < MaxTrouble
    /\ stops' = stops + 1
    /\ End("stopped", calls, run)
    /\ ev' = Ev("Stop", idx)
    /\ UNCHANGED <<store, help, force, comments, mem, pend, miss, tq, target, rq,
                   runs, edits, fails, calls>>
    /\ past' = IF pc = "save" /\ pend.id # 0
               THEN [past EXCEPT !.lost[idx] = pend.id] ELSE past
    /\ UNCHANGED <<rt, fn>>

\* ----------------------------------------------------------------- Doctor
\* DoctorTask.execute / the Doctor pass of ExportTask.execute.
StartDoctor ==
    /\ \E frc \in BOOLEAN : Start("doctor", frc, FALSE)
    /\ pc' = "fix"
    /\ idx' = NextIdx(0)
    /\ target' = 0
    /\ rq' = <<>>
    /\ ev' = Ev("StartDoctor", 0)
    /\ UNCHANGED past
    /\ UNCHANGED <<rt, fn>>

\* Variant: the listing finds no record.
NamedItems_None(e, pid) == <<>>

\* Variant: the listing is not scoped by the parent.
NamedItems_AnyParent(e, pid) ==
    SortedIds({r.id : r \in {x \in remote : /\ x.kind = ZendeskGroup(e)
                                             /\ x.name = e}})

\* ZendeskRequest.get_items as Doctor._fetch_item uses it: the ids of the
\* records of the entity's kind under parent id pid that carry its name.
NamedItems(e, pid) ==
    SortedIds({r.id : r \in {x \in remote : /\ x.kind = ZendeskGroup(e)
                                             /\ x.parent = pid
                                             /\ x.name = e}})

\* Variant: the interactive merge returns the number answered instead of
\* the item at that place.
_merge_items_Number(named, frc, ans) ==
    LET k == Len(named) IN
    IF frc THEN [deleted |-> {}, ret |-> 0, crashed |-> TRUE]
    ELSE IF ans = 0 \/ ans > k + 1
    THEN [deleted |-> {}, ret |-> named[1], crashed |-> FALSE]
    ELSE [deleted |-> {named[i] : i \in {j \in 1 .. k : j # ans}},
          ret |-> IF ans >= 1 THEN ans ELSE k + ans, crashed |-> FALSE]

\* Doctor._merge_items on the list named (more than one id), answer ans of
\* the user: the records it deletes, the id of the record it returns, and
\* whether it dies.  With force it sorts the dicts with
\* attrgetter('updated_at'), which raises AttributeError on a dict.
_merge_items(named, frc, ans) ==
    LET k == Len(named) IN
    IF frc THEN [deleted |-> {}, ret |-> 0, crashed |-> TRUE]
    ELSE IF ans = 0 \/ ans > k + 1
    THEN [deleted |-> {}, ret |-> named[1], crashed |-> FALSE]
    ELSE LET del == {named[i] : i \in {j \in 1 .. k : j # ans}}
             \* zendesk_items[ans - 1], a negative index counting from the end
             pos == IF ans >= 1 THEN ans ELSE k + ans
         IN IF pos \in 1 .. k
            THEN [deleted |-> del, ret |-> named[pos], crashed |-> FALSE]
            ELSE [deleted |-> del, ret |-> 0, crashed |-> TRUE]

\* Variant: the parent test is missing.
ParentIsNew_Never(e) == FALSE

\* Doctor._fix_item, first test: the parent is a new item.
ParentIsNew(e) == Parent(e) # 0 /\ mem[Parent(e)].id = 0

\* Variant: a stale id is never replaced by the id of the record found.
FixOutcome_NoRecovery(id, ret) ==
    IF id # 0
    THEN IF ret = 0 THEN "cleared" ELSE "kept"
    ELSE IF ret # 0 THEN "adopted" ELSE "kept"

\* Variant: a stale id without a record of the name is left in place.
FixOutcome_NoClear(id, ret) ==
    IF id # 0
    THEN IF ret # 0 /\ ret # id THEN "adopted" ELSE "kept"
    ELSE IF ret # 0 THEN "adopted" ELSE "kept"

\* Variant: an item without an id never adopts the record found.
FixOutcome_NoAdoption(id, ret) ==
    IF id # 0
    THEN IF ret # 0 /\ ret # id THEN "adopted"
         ELSE IF ret = 0 THEN "cleared"
         ELSE "kept"
    ELSE "kept"

\* Doctor._fix_item, what it does with the item whose id is id once
\* _fetch_item has returned the record ret (0: none).
FixOutcome(id, ret) ==
    IF id # 0
    THEN IF ret # 0 /\ ret # id THEN "adopted"
         ELSE IF ret = 0 THEN "cleared"
         ELSE "kept"
    ELSE IF ret # 0 THEN "adopted" ELSE "kept"

\* Doctor._fix_item on entity e when get_items is answered st and the user
\* answers ans to a merge prompt.
_fix_item(e, st, ans) ==
    LET pid == IF Parent(e) = 0 THEN 0 ELSE mem[Parent(e)].id
        base == [mode |-> "none", st |-> st, named |-> <<>>, ret |-> 0,
                 deleted |-> {}, outcome |-> "kept", listed |-> TRUE]
    IN
    IF ParentIsNew(e)
    THEN [base EXCEPT !.mode = "parentnew", !.st = "none", !.outcome = "reset",
                      !.listed = FALSE]
    ELSE IF st = "fail"
    THEN [base EXCEPT !.outcome = FixOutcome(mem[e].id, 0)]
    ELSE IF Parent(e) # 0 /\ ~Alive(pid)
    THEN [base EXCEPT !.st = "notfound", !.outcome = "aborted"]
    ELSE LET named == NamedItems(e, pid) IN
         IF Len(named) > 1
         THEN LET m == _merge_items(named, force, ans) IN
              [base EXCEPT !.mode = IF force THEN "forced" ELSE "interactive",
                           !.named = named, !.ret = m.ret, !.deleted = m.deleted,
                           !.outcome = IF m.crashed THEN "crashed"
                                       ELSE FixOutcome(mem[e].id, m.ret)]
         ELSE LET ret == IF Len(named) = 1 THEN named[1] ELSE 0 IN
              [base EXCEPT !.mode = "single", !.named = named, !.ret = ret,
                           !.outcome = FixOutcome(mem[e].id, ret)]

\* The answers a user can give to the prompt over k candidates.
Answers(k) == (0 - 1) .. (k + 2)

\* One step of Doctor.fix: _fix_item on the entity the walk is at.
FixItem ==
    /\ task \in {"doctor", "export"}
    /\ pc = "fix"
    /\ idx # 0
    /\ \E st \in Statuses :
       \E ans \in Answers(Cardinality(remote)) :
        LET e == idx
            f == _fix_item(e, st, ans)
            zendesk_item == [id |-> f.ret, tids |-> FALSE]
            newRemote == remote \ UNION {Below(d) : d \in f.deleted}
            newDisk == CASE f.outcome = "adopted" ->
                               AsFile(save_json(disk[e], zendesk_item))
                         [] f.outcome \in {"cleared", "reset"} -> NoFile
                         [] OTHER -> disk[e]
            newMem == CASE f.outcome = "adopted" -> zendesk_item
                        [] f.outcome \in {"cleared", "reset"} -> EmptyJson
                        [] OTHER -> mem[e]
            newCalls == [calls EXCEPT
                           !.get_items = @ + (IF f.listed THEN 1 ELSE 0),
                           !.raw_delete = @ + Cardinality(f.deleted)]
            newRun == [run EXCEPT
                         !.fixed[e] = f.outcome,
                         !.failed = @ \/ (f.listed /\ st = "fail"),
                         !.changed = @ \/ newDisk # disk[e] \/ newMem # mem[e]
                                       \/ newRemote # remote]
        IN
        \* an answer is read only by the interactive merge
        /\ (f.mode = "interactive" /\ ans \in Answers(Len(f.named)))
           \/ (f.mode # "interactive" /\ ans = 0)
        \* a status is drawn only when the listing is sent
        /\ f.listed \/ st = "ok"
        /\ fails' = fails + (IF f.listed THEN Failed(st) ELSE 0)
        /\ remote' = newRemote
        /\ disk' = [disk EXCEPT ![e] = newDisk]
        /\ mem' = [mem EXCEPT ![e] = newMem]
        /\ calls' = newCalls
        /\ ev' = [op |-> "fix", e |-> e, mode |-> f.mode, st |-> f.st,
                  named |-> f.named, ans |-> ans, ret |-> f.ret,
                  preMem |-> mem[e], preDisk |-> disk[e],
                  preParent |-> IF Parent(e) = 0 THEN 0 ELSE mem[Parent(e)].id,
                  preRemote |-> remote]
        /\ IF f.outcome = "crashed"
           THEN End("crashed", newCalls, newRun)
           ELSE /\ idx' = NextIdx(e)
                /\ run' = newRun
                /\ UNCHANGED <<task, pc, prev>>
    /\ UNCHANGED <<cwdIsRoot, present, content, tfiles, nextId, clock,
                   force, comments, pend, miss, tq, target, rq,
                   runs, edits, stops>>
    /\ UNCHANGED past
    /\ UNCHANGED <<rt, fn>>

\* Doctor.fix returns: DoctorTask is over; ExportTask loads the tree again
\* and hands it to Pusher.push.
FixDone ==
    /\ task \in {"doctor", "export"}
    /\ pc = "fix"
    /\ idx = 0
    /\ IF task = "doctor"
       THEN /\ End("done", calls, run)
            /\ mem' = mem
       ELSE /\ mem' = Loaded
            /\ pc' = "create"
            /\ idx' = NextIdx(0)
            /\ UNCHANGED <<task, run, prev>>
    /\ ev' = Ev("FixDone", 0)
    /\ UNCHANGED <<store, help, force, comments, pend, miss, tq, target, rq,
                   used, calls>>
    /\ UNCHANGED past
    /\ UNCHANGED <<rt, fn>>

\* ----------------------------------------------------------------- Pusher
\* ExportTask.execute: the Doctor pass, then Pusher.push on the reloaded tree.
StartExport ==
    /\ \E frc \in BOOLEAN : \E cmt \in BOOLEAN : Start("export", frc, cmt)
    /\ pc' = "fix"
    /\ idx' = NextIdx(0)
    /\ target' = 0
    /\ rq' = <<>>
    /\ ev' = Ev("StartExport", 0)
    /\ UNCHANGED past
    /\ UNCHANGED <<rt, fn>>

\* Translation.to_dict / Group.to_dict / Article.to_dict: the payload of the
\* local translation l of e.
to_dict(e, l) == content[e][l]

\* The record with a translation set.
WithTr(id, z, v) == (remote \ {Rec(id)}) \cup {[Rec(id) EXCEPT !.tr[z] = v]}

\* Pusher._push, first half: an item without an id is created remotely
\* (Pusher._push_new_item up to the answer of req.post).
PushCreate ==
    /\ task = "export"
    /\ pc = "create"
    /\ idx # 0
    /\ LET e == idx
           p == Parent(e)
       IN IF mem[e].id # 0
          THEN /\ pc' = "probe"
               /\ ev' = Ev("PushSkipCreate", e)
               /\ UNCHANGED <<help, pend, fails, calls, run, task, idx, prev, past>>
          ELSE \E st \in Statuses :
               LET newCalls == Count(calls, "post")
                   newRun == [run EXCEPT !.created = @ \cup {e},
                                         !.failed = @ \/ st = "fail"]
               IN
               /\ fails' = fails + Failed(st)
               /\ calls' = newCalls
               /\ ev' = [Ev("post", e) EXCEPT !.st = st,
                            !.preParent = IF p = 0 THEN 0 ELSE mem[p].id]
               /\ IF st = "fail"
                  THEN \* _parse_response logs the status and returns {}
                       /\ pend' = EmptyJson
                       /\ pc' = "save"
                       /\ run' = newRun
                       /\ UNCHANGED <<help, task, idx, prev, past>>
                  ELSE IF p # 0 /\ ~Alive(mem[p].id)
                  THEN \* 404: RecordNotFoundError, caught nowhere
                       /\ End("crashed", newCalls, newRun)
                       /\ UNCHANGED <<help, pend, past>>
                  ELSE /\ remote' = remote \cup
                            {[id |-> nextId, kind |-> ZendeskGroup(e),
                              parent |-> IF p = 0 THEN 0 ELSE mem[p].id,
                              name |-> e, upd |-> clock,
                              tr |-> [NoTr EXCEPT
                                        ![to_zendesk_locale(DEFAULT_LOCALE)] =
                                            to_dict(e, DEFAULT_LOCALE)],
                              cd |-> FALSE]}
                       /\ nextId' = nextId + 1
                       /\ clock' = clock + 1
                       /\ pend' = [id |-> nextId, tids |-> FALSE]
                       /\ pc' = "save"
                       /\ run' = [newRun EXCEPT !.posted[e] = nextId]
                       /\ past' = [past EXCEPT !.known[e] = @ \cup {nextId},
                                                !.made[e] = TRUE]
                       /\ UNCHANGED <<task, idx, prev>>
    /\ UNCHANGED <<store, force, comments, mem, miss, tq, target, rq,
                   runs, edits, stops>>
    /\ UNCHANGED <<rt, fn>>

\* Pusher._push_new_item, second half: the answer is merged into the meta
\* file and becomes the item's meta.
PushSave ==
    /\ task = "export"
    /\ pc = "save"
    /\ LET e == idx
           meta == save_json(disk[e], pend)
       IN /\ disk' = [disk EXCEPT ![e] = AsFile(meta)]
          /\ mem' = [mem EXCEPT ![e] = meta]
          /\ ev' = [Ev("save", e) EXCEPT !.preMem = mem[e], !.preDisk = disk[e]]
    /\ pc' = "probe"
    /\ pend' = EmptyJson
    /\ UNCHANGED <<cwdIsRoot, present, content, tfiles, help, task, force,
                   comments, idx, miss, tq, target, rq, used, calls, run, prev>>
    /\ UNCHANGED past
    /\ UNCHANGED <<rt, fn>>

\* Pusher._push_item_translations, first line: req.get_missing_locales.
PushProbe ==
    /\ task = "export"
    /\ pc = "probe"
    /\ \E st \in Statuses :
       LET e == idx
           id == mem[e].id
           newCalls == Count(calls, "get_missing_locales")
           newRun == [run EXCEPT !.failed = @ \/ st = "fail"]
       IN
       /\ fails' = fails + Failed(st)
       /\ calls' = newCalls
       /\ ev' = [Ev("get_missing_locales", e) EXCEPT !.st = st, !.preMem = mem[e]]
       /\ IF st = "fail"
          THEN /\ miss' = {}
               /\ tq' = LocalLocales
               /\ pc' = "trans"
               /\ run' = newRun
               /\ UNCHANGED <<task, idx, prev>>
          ELSE IF ~Alive(id)
          THEN /\ End("crashed", newCalls, newRun)
               /\ UNCHANGED <<miss, tq>>
          ELSE /\ miss' = {z \in ZLocales : Rec(id).tr[z] = ""}
               /\ tq' = LocalLocales
               /\ pc' = "trans"
               /\ run' = newRun
               /\ UNCHANGED <<task, idx, prev>>
    /\ UNCHANGED <<store, help, force, comments, mem, pend, target, rq,
                   runs, edits, stops>>
    /\ UNCHANGED past
    /\ UNCHANGED <<rt, fn>>

\* Variant: no fetched translation counts as changed.
_has_content_changed_Never(local, zendesk_content) == FALSE

\* Variant: every fetched translation counts as changed.
_has_content_changed_Always(local, zendesk_content) == TRUE

\* Pusher._has_content_changed on the fetched translation: some key of the
\* local payload hashes differently from the remote one ('' when absent).
_has_content_changed(local, zendesk_content) == zendesk_content # local

\* The pairs of answers one loop turn can get.
StatusPairs ==
    {sp \in Statuses \X Statuses :
        \/ past.outage
        \/ /\ fails + Failed(sp[1]) + Failed(sp[2]) <= MaxFails
           /\ edits + stops + fails + Failed(sp[1]) + Failed(sp[2]) <= MaxTrouble}

\* Pusher._push_item_translations, one turn of the loop: a translation
\* whose locale is missing remotely is created; another one is fetched and
\* updated if its content has changed.
PushTranslation ==
    /\ task = "export"
    /\ pc = "trans"
    /\ tq # <<>>
    /\ \E sp \in StatusPairs :
       LET e == idx
           id == mem[e].id
           l == Head(tq)
           z == to_zendesk_locale(l)
           data == to_dict(e, l)
           new == z \in miss
           \* first call: post_translation or get_translation
           st1 == sp[1]
           gone1 == st1 = "ok" /\ (~Alive(id) \/ (~new /\ Rec(id).tr[z] = ""))
           fetched == IF st1 = "fail" THEN "" ELSE Rec(id).tr[z]
           changed == ~new /\ ~gone1 /\ _has_content_changed(data, fetched)
           \* second call: put_translation
           st2 == sp[2]
           gone2 == changed /\ st2 = "ok" /\ ~Alive(id)
           written == (new /\ st1 = "ok" /\ ~gone1) \/ (changed /\ st2 = "ok" /\ ~gone2)
           c1 == Count(calls, IF new THEN "post_translation" ELSE "get_translation")
           newCalls == IF changed THEN Count(c1, "put_translation") ELSE c1
           newRun == [run EXCEPT !.failed = @ \/ st1 = "fail" \/ (changed /\ st2 = "fail")]
       IN
       /\ changed \/ st2 = "ok"
       /\ fails' = fails + Failed(st1) + (IF changed THEN Failed(st2) ELSE 0)
       /\ calls' = newCalls
       /\ ev' = [Ev(IF new THEN "post_translation"
                    ELSE IF changed THEN "put_translation" ELSE "get_translation", e)
                   EXCEPT !.st = IF st1 = "fail" \/ (changed /\ st2 = "fail")
                                 THEN "fail" ELSE "ok",
                          !.preMem = mem[e]]
       /\ IF gone1 \/ gone2
          THEN /\ End("crashed", newCalls, newRun)
               /\ UNCHANGED <<remote, tq>>
          ELSE /\ remote' = IF written THEN WithTr(id, z, data) ELSE remote
               /\ tq' = Tail(tq)
               /\ run' = newRun
               /\ UNCHANGED <<task, pc, idx, prev>>
    /\ UNCHANGED <<store, nextId, clock, force, comments, mem, pend, miss,
                   target, rq, runs, edits, stops>>
    /\ UNCHANGED past
    /\ UNCHANGED <<rt, fn>>

\* Pusher.push, after _push of an article: _disable_article_comments when
\* the task was configured with disable_article_comments.
PushComments ==
    /\ task = "export"
    /\ pc = "trans"
    /\ tq = <<>>
    /\ IsArticle(idx) /\ comments
    /\ \E st \in Statuses :
       LET e == idx
           id == mem[e].id
           newCalls == Count(calls, "put")
           newRun == [run EXCEPT !.failed = @ \/ st = "fail"]
       IN
       /\ fails' = fails + Failed(st)
       /\ calls' = newCalls
       /\ ev' = [Ev("put", e) EXCEPT !.st = st, !.preMem = mem[e]]
       /\ IF st = "ok" /\ ~Alive(id)
          THEN /\ End("crashed", newCalls, newRun)
               /\ UNCHANGED remote
          ELSE /\ remote' = IF st = "ok"
                            THEN (remote \ {Rec(id)}) \cup {[Rec(id) EXCEPT !.cd = TRUE]}
                            ELSE remote
               /\ pc' = "create"
               /\ idx' = NextIdx(e)
               /\ run' = newRun
               /\ UNCHANGED <<task, prev>>
    /\ UNCHANGED <<store, nextId, clock, force, comments, mem, pend, miss, tq,
                   target, rq, runs, edits, stops>>
    /\ UNCHANGED past
    /\ UNCHANGED <<rt, fn>>

\* Pusher.push: on to the next item of the walk.
PushNext ==
    /\ task = "export"
    /\ pc = "trans"
    /\ tq = <<>>
    /\ ~(IsArticle(idx) /\ comments)
    /\ pc' = "create"
    /\ idx' = NextIdx(idx)
    /\ ev' = Ev("PushNext", idx)
    /\ UNCHANGED <<store, help, task, force, comments, mem, pend, miss, tq,
                   target, rq, used, calls, run, prev>>
    /\ UNCHANGED past
    /\ UNCHANGED <<rt, fn>>

\* Pusher.push returns and ExportTask prints 'Done'.
PushDone ==
    /\ task = "export"
    /\ pc = "create"
    /\ idx = 0
    /\ End("done", calls, run)
    /\ ev' = Ev("PushDone", 0)
    /\ UNCHANGED <<store, help, force, comments, mem, pend, miss, tq,
                   target, rq, used, calls>>
    /\ UNCHANGED past
    /\ UNCHANGED <<rt, fn>>

\* ------------------------------------------------------------ RemoveTask
\* Variant: the local files go first.
RemoveSteps_LocalFirst == <<"local", "zendesk", "translate">>

\* RemoveTask.execute: the removers in the order they are called.
RemoveSteps == <<"zendesk", "translate", "local">>

\* The step after p ("end": execute prints 'Done').
StepAfter(p) ==
    LET i == CHOOSE k \in 1 .. Len(RemoveSteps) : RemoveSteps[k] = p
    IN IF i = Len(RemoveSteps) THEN "end" ELSE RemoveSteps[i + 1]

\* Base.translate_ids: the number of translation-store ids the meta holds.
translate_ids(e) ==
    IF mem[e].tids THEN (IF IsArticle(e) THEN 2 ELSE 1) ELSE 0

\* RemoveTask.execute up to load_from_path: the path exists; the item and
\* the entities below it are loaded.
StartRemove ==
    /\ \E t \in Entities :
        /\ present[t]
        /\ target' = t
        /\ rq' = SortedIds({e \in Subtree(t) : present[e]})
        /\ ev' = Ev("StartRemove", t)
    /\ Start("remove", FALSE, FALSE)
    /\ pc' = RemoveSteps[1]
    /\ idx' = 0
    /\ UNCHANGED past
    /\ UNCHANGED <<rt, fn>>

\* A remover returned: on to the next one, or the task is over.
Returned(c, r) ==
    IF StepAfter(pc) = "end"
    THEN End("done", c, r)
    ELSE /\ pc' = StepAfter(pc)
         /\ run' = r
         /\ UNCHANGED <<task, idx, prev>>

\* zendesk.Remover.remove: one delete request for the item itself if it has
\* an id; the help center drops the records below it with it.
RemoveZendesk ==
    /\ task = "remove"
    /\ pc = "zendesk"
    /\ LET id == mem[target].id
       IN IF id = 0
          THEN /\ Returned(calls, run)
               /\ ev' = Ev("RemoveZendesk", target)
               /\ UNCHANGED <<help, fails, calls>>
          ELSE \E st \in Statuses :
               LET c1 == Count(calls, IF IsArticle(target) THEN "delete_article"
                                      ELSE "delete_group")
                   newCalls == Count(c1, "raw_delete")
                   newRun == [run EXCEPT !.failed = @ \/ st = "fail"]
               IN /\ fails' = fails + Failed(st)
                  /\ calls' = newCalls
                  /\ remote' = IF st = "ok" /\ Alive(id)
                               THEN remote \ Below(id) ELSE remote
                  /\ ev' = [Ev("delete", target) EXCEPT !.st = st,
                                                        !.preRemote = remote]
                  /\ Returned(newCalls, newRun)
                  /\ UNCHANGED <<nextId, clock>>
    /\ UNCHANGED <<store, force, comments, mem, pend, miss, tq, target, rq,
                   runs, edits, stops>>
    /\ UNCHANGED past
    /\ UNCHANGED <<rt, fn>>

\* translate.Remover.remove, one item of the walk: WebTranslateItClient.delete
\* issues one delete per translation id of the item.  Base.translate_ids
\* of a meta without ids is a list, whose .items() raises AttributeError.
RemoveTranslate ==
    /\ task = "remove"
    /\ pc = "translate"
    /\ rq # <<>>
    /\ \E st \in Statuses :
       LET e == Head(rq)
           n == translate_ids(e)
           newCalls == [calls EXCEPT !.translate_delete = @ + n]
           newRun == [run EXCEPT !.failed = @ \/ st = "fail"]
       IN /\ n > 0 \/ st = "ok"
          /\ fails' = fails + Failed(st)
          /\ calls' = newCalls
          /\ ev' = [Ev("translate_delete", e) EXCEPT !.st = st]
          /\ IF n = 0
             THEN /\ End("crashed", newCalls, newRun)
                  /\ UNCHANGED <<tfiles, rq>>
             ELSE /\ tfiles' = IF st = "ok"
                               THEN {f \in tfiles : f[1] # e} ELSE tfiles
                  /\ rq' = Tail(rq)
                  /\ IF Tail(rq) = <<>>
                     THEN Returned(newCalls, newRun)
                     ELSE /\ run' = newRun
                          /\ UNCHANGED <<task, pc, idx, prev>>
    /\ UNCHANGED <<cwdIsRoot, present, disk, content, help, force, comments,
                   mem, pend, miss, tq, target, runs, edits, stops>>
    /\ UNCHANGED past
    /\ UNCHANGED <<rt, fn>>

\* filesystem.Remover.remove: the files of an article, or the directory of
\* a group with everything in it.
RemoveLocal ==
    /\ task = "remove"
    /\ pc = "local"
    /\ present' = [e \in Entities |-> present[e] /\ e \notin Subtree(target)]
    /\ disk' = [e \in Entities |-> IF e \in Subtree(target) THEN NoFile ELSE disk[e]]
    /\ ev' = Ev("RemoveLocal", target)
    /\ Returned(calls, run)
    /\ UNCHANGED <<cwdIsRoot, content, tfiles, help, force, comments, mem,
                   pend, miss, tq, target, rq, used, calls>>
    /\ UNCHANGED past
    /\ UNCHANGED <<rt, fn>>

\* ------------------------------------------------------------- ImportTask
\* ImportTask.execute starts: nothing is loaded, Fetcher.fetch builds the
\* tree from the help center.
StartImport ==
    /\ Start("import", FALSE, FALSE)
    /\ pc' = "fetch"
    /\ idx' = 0
    /\ target' = 0
    /\ rq' = <<>>
    /\ ev' = Ev("StartImport", 0)
    /\ UNCHANGED past
    /\ UNCHANGED <<rt, fn>>

\* The ids from the category down to record r: the place of r in the walk
\* of Fetcher.fetch and Saver.save.
RECURSIVE WalkKey(_)
WalkKey(r) ==
    IF r.parent = 0 THEN <<r.id>> ELSE WalkKey(Rec(r.parent)) \o <<r.id>>

\* a comes no later than b in the walk (same depth).
WalkLeq(a, b) ==
    \E i \in 1 .. (Len(a) + 1) :
        /\ \A j \in 1 .. (i - 1) : a[j] = b[j]
        /\ i = Len(a) + 1 \/ a[i] < b[i]

\* Fetcher.fetch with utils.slugify of the record names as file names:
\* record r becomes the local entity e when it carries the name of e and
\* the records above it carry the names of the entities above e.
RECURSIVE LandsOn(_, _)
LandsOn(r, e) ==
    /\ r.kind = ZendeskGroup(e)
    /\ r.name = e
    /\ IF IsCategory(e) THEN r.parent = 0
       ELSE /\ Alive(r.parent)
            /\ LandsOn(Rec(r.parent), Parent(e))

\* The listing that holds r, and every listing above it, was answered
\* (bad: the record whose children's listing got a 5xx, 0 for the category
\* listing, -1 for none; a 5xx listing is parsed as an empty one).
RECURSIVE ListedOk(_, _)
ListedOk(r, bad) ==
    /\ r.parent # bad
    /\ r.parent = 0 \/ ListedOk(Rec(r.parent), bad)

\* The records Saver.save writes to the files of e.
Fetched(e, bad) == {r \in remote : LandsOn(r, e) /\ ListedOk(r, bad)}

\* The last of them in the walk: its meta is what the files hold at the end.
LastSaved(e, bad) ==
    CHOOSE r \in Fetched(e, bad) :
        \A q \in Fetched(e, bad) : WalkLeq(WalkKey(q), WalkKey(r))

\* The listings that may fail.
BadListings ==
    {0 - 1} \cup (IF "fail" \in Statuses
                  THEN {0} \cup {r.id : r \in {x \in remote : x.kind # "articles"}}
                  ELSE {})

\* ---------------------------------------------------------------- MoveTask
\* The destinations a Move can be given: a path that exists already (a
\* section or category of the tree) or one that does not.
MoveDests == {"taken", "free"}

\* MoveTask.execute up to its checks: a source that does not exist or a
\* destination that exists is logged and the task returns.
MoveRefused ==
    /\ task = "idle"
    /\ runs < MaxRuns
    /\ \E t \in Entities, d \in MoveDests :
        /\ ~present[t] \/ d = "taken"
        /\ target' = t
        /\ ev' = [Ev("MoveRefused", t) EXCEPT !.mode = d]
    /\ runs' = runs + 1
    /\ calls' = NoCalls
    /\ run' = [NoRun EXCEPT !.kind = "move", !.state = "done",
                            !.startPresent = present]
    /\ prev' = NoPrev
    /\ UNCHANGED <<store, help, task, force, comments, pc, idx, mem, pend,
                   miss, tq, rq, edits, stops, fails, past>>
    /\ UNCHANGED <<rt, fn>>

\* MoveTask.execute past its checks: the item is loaded from the source path.
StartMove ==
    /\ \E t \in Entities :
        /\ present[t]
        /\ target' = t
        /\ ev' = [Ev("StartMove", t) EXCEPT !.mode = "free"]
    /\ Start("move", FALSE, FALSE)
    /\ pc' = "zendesk"
    /\ idx' = 0
    /\ UNCHANGED <<rq, past>>
    /\ UNCHANGED <<rt, fn>>

\* zendesk.mover(...).move(item, dest): Mover.move takes the item alone, the
\* call with two arguments raises TypeError before any request is sent, and
\* translate.mover and filesystem.mover are never reached.
MoveZendesk ==
    /\ task = "move"
    /\ pc = "zendesk"
    /\ End("crashed", calls, run)
    /\ ev' = [Ev("MoveZendesk", target) EXCEPT !.preMem = mem[target],
                                               !.preDisk = disk[target],
                                               !.preRemote = remote]
    /\ UNCHANGED <<store, help, force, comments, mem, pend, miss, tq, target,
                   rq, used, calls, past>>
    /\ UNCHANGED <<rt, fn>>


\* main.DoctorTask.execute: the tree is loaded and the walk starts.
StartDoctorMain ==
    /\ Start("doctor_main", FALSE, FALSE)
    /\ pc' = "fix_main"
    /\ idx' = NextIdx(0)
    /\ target' = 0
    /\ rq' = <<>>
    /\ ev' = Ev("StartDoctorMain", 0)
    /\ UNCHANGED past
    /\ UNCHANGED <<rt, fn>>

\* Doctor._fetch_item of zendesk.py: req.get('<key>.json') lists every
\* record of the kind, whatever its parent; the first one of the item's
\* name is taken (0: none).
AllNamed(e) ==
    SortedIds({r.id : r \in {x \in remote : x.kind = ZendeskGroup(e) /\ x.name = e}})
_fetch_item_key(e) == IF AllNamed(e) = <<>> THEN 0 ELSE AllNamed(e)[1]

\* Doctor._exists of zendesk.py: False on a 404; an answer that is neither
\* 2xx nor 404 is parsed to {} and counts as found.
_exists(e, st) ==
    st = "fail" \/ (Alive(mem[e].id) /\ Rec(mem[e].id).kind = ZendeskGroup(e))

\* Doctor._fix_item of zendesk.py on entity e, the two calls answered st1
\* and st2: an item without id adopts the record _fetch_item finds; an item
\* whose id is not found adopts it too, or loses its meta file.  A listing
\* that is not answered 2xx is parsed to {} and res[key] raises KeyError.
_fix_item_key(e, st1, st2) ==
    LET base == [st |-> st1, ret |-> 0, listed |-> TRUE, probed |-> FALSE,
                 outcome |-> "kept"]
        fetch(b, st) ==
            IF st = "fail" THEN [b EXCEPT !.st = "fail", !.outcome = "crashed"]
            ELSE IF _fetch_item_key(e) # 0
            THEN [b EXCEPT !.ret = _fetch_item_key(e), !.outcome = "adopted"]
            ELSE [b EXCEPT !.outcome = IF mem[e].id = 0 THEN "kept" ELSE "cleared"]
    IN IF mem[e].id = 0
       THEN fetch(base, st1)
       ELSE IF _exists(e, st1)
       THEN [base EXCEPT !.listed = FALSE, !.probed = TRUE]
       ELSE fetch([base EXCEPT !.probed = TRUE], st2)

\* One step of the walk of main.DoctorTask: zendesk_doctor.fix_* on the
\* entity (filesystem_doctor.fix_* finds the content file in place and
\* translate_doctor.fix_* does nothing).
FixItemMain ==
    /\ task = "doctor_main"
    /\ pc = "fix_main"
    /\ idx # 0
    /\ \E sp \in StatusPairs :
        LET e == idx
            f == _fix_item_key(e, sp[1], sp[2])
            both == f.probed /\ f.listed
            zendesk_item == [id |-> f.ret, tids |-> FALSE]
            newDisk == CASE f.outcome = "adopted" ->
                               AsFile(save_json(disk[e], zendesk_item))
                         [] f.outcome = "cleared" -> NoFile
                         [] OTHER -> disk[e]
            newMem == IF f.outcome = "adopted" THEN zendesk_item ELSE mem[e]
            newCalls == [calls EXCEPT
                           !.get_item = @ + (IF f.probed THEN 1 ELSE 0),
                           !.get_items = @ + (IF f.listed THEN 1 ELSE 0)]
            newRun == [run EXCEPT
                         !.fixed[e] = f.outcome,
                         !.failed = @ \/ sp[1] = "fail" \/ (both /\ sp[2] = "fail"),
                         !.changed = @ \/ newDisk # disk[e] \/ newMem # mem[e]]
        IN
        \* a second status is drawn only when both calls are sent
        /\ both \/ sp[2] = "ok"
        /\ fails' = fails + Failed(sp[1]) + (IF both THEN Failed(sp[2]) ELSE 0)
        /\ disk' = [disk EXCEPT ![e] = newDisk]
        /\ mem' = [mem EXCEPT ![e] = newMem]
        /\ calls' = newCalls
        /\ ev' = [NoEv EXCEPT !.op = "fix_main", !.e = e, !.st = f.st,
                              !.named = AllNamed(e), !.ret = f.ret,
                              !.preMem = mem[e], !.preDisk = disk[e],
                              !.preParent = IF Parent(e) = 0 THEN 0
                                            ELSE mem[Parent(e)].id,
                              !.preRemote = remote]
        /\ IF f.outcome = "crashed"
           THEN End("crashed", newCalls, newRun)
           ELSE /\ idx' = NextIdx(e)
                /\ run' = newRun
                /\ UNCHANGED <<task, pc, prev>>
    /\ UNCHANGED <<cwdIsRoot, present, content, tfiles, help,
                   force, comments, pend, miss, tq, target, rq,
                   runs, edits, stops>>
    /\ UNCHANGED past
    /\ UNCHANGED <<rt, fn>>

\* The walk is over and DoctorTask prints 'Done'.
FixDoneMain ==
    /\ task = "doctor_main"
    /\ pc = "fix_main"
    /\ idx = 0
    /\ End("done", calls, run)
    /\ ev' = Ev("FixDoneMain", 0)
    /\ UNCHANGED <<store, help, force, comments, mem, pend, miss, tq, target, rq,
                   used, calls>>
    /\ UNCHANGED past
    /\ UNCHANGED <<rt, fn>>

\* Fetcher.fetch and Saver.save: every fetched record is saved to the path
\* its name gives; the meta file gets the record (save_json), the content
\* file its name and description, the body file html2text of its body.
ImportSave ==
    /\ task = "import"
    /\ pc = "fetch"
    /\ \E bad \in BadListings :
       \E body \in [Entities -> Versions] :
        LET got == {e \in Entities : Fetched(e, bad) # {}}
            listings == 1 + Cardinality({r \in remote : /\ r.kind # "articles"
                                                        /\ ListedOk(r, bad)})
            newCalls == [calls EXCEPT !.get_items = @ + listings]
            newRun == [run EXCEPT !.failed = bad # 0 - 1]
        IN
        /\ \A e \in Entities : (e \notin got \/ ~IsArticle(e)) => body[e] = "v0"
        /\ fails' = fails + (IF bad = 0 - 1 THEN 0 ELSE 1)
        /\ disk' = [e \in Entities |->
                     IF e \in got
                     THEN AsFile(save_json(disk[e],
                                 [id |-> LastSaved(e, bad).id, tids |-> FALSE]))
                     ELSE disk[e]]
        /\ present' = [e \in Entities |-> present[e] \/ e \in got]
        /\ content' = [e \in Entities |->
                        IF e \notin got THEN content[e]
                        ELSE [content[e] EXCEPT ![DEFAULT_LOCALE] =
                                IF IsArticle(e) THEN body[e]
                                ELSE LastSaved(e, bad).tr[to_zendesk_locale(DEFAULT_LOCALE)]]]
        /\ past' = [past EXCEPT !.made = [e \in Entities |-> @[e] \/ e \in got]]
        /\ calls' = newCalls
        /\ End("done", newCalls, newRun)
    /\ ev' = Ev("import", 0)
    /\ UNCHANGED <<cwdIsRoot, tfiles, help, force, comments, mem, pend, miss,
                   tq, target, rq, runs, edits, stops>>
    /\ UNCHANGED <<rt, fn>>

Next ==
    \/ RemoteDelete \/ RemoteRename \/ RemoteTouch \/ RemoteAdd \/ LocalEdit
    \/ StartDoctor \/ FixItem \/ FixDone \/ Stop
    \/ StartExport \/ PushCreate \/ PushSave \/ PushProbe \/ PushTranslation
    \/ PushComments \/ PushNext \/ PushDone
    \/ StartRemove \/ RemoveZendesk \/ RemoveTranslate \/ RemoveLocal

Spec == Init /\ [][Next]_vars

\* Import, Doctor and Export runs (no Remove), with the same environment.
NextSync ==
    \/ RemoteDelete \/ RemoteRename \/ RemoteTouch \/ RemoteAdd \/ LocalEdit
    \/ StartDoctor \/ FixItem \/ FixDone \/ Stop
    \/ StartExport \/ PushCreate \/ PushSave \/ PushProbe \/ PushTranslation
    \/ PushComments \/ PushNext \/ PushDone
    \/ StartImport \/ ImportSave

SpecSync == Init /\ [][NextSync]_vars

\* One Export against an unreliable help center.
NextOutage ==
    \/ StartExport \/ FixItem \/ FixDone
    \/ PushCreate \/ PushSave \/ PushProbe \/ PushTranslation
    \/ PushComments \/ PushNext \/ PushDone

SpecOutage == InitOutage /\ [][NextOutage]_vars

\* Export and Move runs.
NextMove ==
    \/ StartExport \/ FixItem \/ FixDone
    \/ PushCreate \/ PushSave \/ PushProbe \/ PushTranslation
    \/ PushComments \/ PushNext \/ PushDone
    \/ MoveRefused \/ StartMove \/ MoveZendesk

SpecMove == Init /\ [][NextMove]_vars

\* A tree is saved and loaded again.
NextRound == RtSave \/ RtLoad

SpecRound == InitRound /\ [][NextRound]_vars

\* The Doctor task of main.py runs once.
NextMain == StartDoctorMain \/ FixItemMain \/ FixDoneMain

SpecMain == InitMain /\ [][NextMain]_vars

\* A hand-written tree is loaded twice.
NextHeal == HealLoad

SpecHeal == InitHeal /\ [][NextHeal]_vars

NextMoveSection == MoveSectionTask

SpecMoveSection == InitMoveSection /\ [][NextMoveSection]_vars

\* A root is loaded.
NextLoad == RtLoad

SpecLoad == InitLoad /\ [][NextLoad]_vars

\* The functions of utils applied to texts and locale codes.
NextUtils == CallSlugify \/ CallToZendeskLocale \/ CallToIsoLocale

SpecUtils == InitUtils /\ [][NextUtils]_vars

\* ============================================================ properties
\* What the last step, a _fix_item, started from.
FixedNow == ev.op = "fix"
Resolved == ev.preMem.id # 0 /\ \E r \in ev.preRemote : r.id = ev.preMem.id
Stale == ev.preMem.id # 0 /\ ~\E r \in ev.preRemote : r.id = ev.preMem.id
\* The records that carried the entity's name under its parent.
NamedBefore ==
    {r \in ev.preRemote : /\ r.kind = ZendeskGroup(ev.e)
                          /\ r.parent = ev.preParent
                          /\ r.name = ev.e}
\* The parent of the entity had an id (a category has no parent).
ParentKnown == IsCategory(ev.e) \/ ev.preParent # 0
MetaUntouched == mem[ev.e] = ev.preMem /\ disk[ev.e] = ev.preDisk
HoldsIdOf(rs) ==
    \E r \in rs : /\ mem[ev.e].id = r.id
                  /\ disk[ev.e].file
                  /\ disk[ev.e].id = r.id
ExportDone == run.kind = "export" /\ run.state = "done"

Cex_C3 ==
    (FixedNow /\ ev.st = "ok" /\ Resolved /\ ParentKnown
       /\ Cardinality(NamedBefore) <= 1)
        => MetaUntouched /\ remote = ev.preRemote

Thm_C5 ==
    /\ (FixedNow /\ ev.st = "ok" /\ ev.preMem.id = 0
          /\ Cardinality(NamedBefore) = 1)
          => HoldsIdOf(NamedBefore)
    /\ run.kind = "export"
          => \A e \in Entities : run.fixed[e] = "adopted" => e \notin run.created

Wit_C5 ==
    /\ ExportDone
    /\ ~run.failed
    /\ \E e \in Entities :
         /\ run.fixed[e] = "adopted"
         /\ e \notin run.created
         /\ Alive(mem[e].id)
         /\ calls.post < Cardinality({d \in Entities : present[d]})

\* C6: when _fix_item ran on a child whose parent had no id, the child's
\* meta file is gone and its meta in memory is empty, whatever id it had;
\* and when the Pusher of an Export starts, every child of a parent without
\* an id is without meta.
Thm_C6 ==
    /\ (FixedNow /\ ~IsCategory(ev.e) /\ ev.preParent = 0)
          => mem[ev.e] = EmptyJson /\ disk[ev.e] = NoFile
    /\ (task = "export" /\ ev.op = "FixDone")
          => \A e \in Entities :
                (present[e] /\ Parent(e) # 0 /\ mem[Parent(e)].id = 0)
                   => mem[e] = EmptyJson /\ disk[e] = NoFile

Wit_C6 ==
    /\ task = "export"
    /\ FixedNow /\ ~IsCategory(ev.e) /\ ev.preParent = 0
    /\ ev.preMem.id # 0
    /\ disk[ev.e] = NoFile

\* C7: when _fix_item ran with force on an entity whose name k > 1 records
\* carried under its parent, exactly one of them is left, the one with the
\* greatest updated_at.
Cex_C7 ==
    (FixedNow /\ force /\ ev.st = "ok" /\ Cardinality(NamedBefore) > 1)
        => \E r \in NamedBefore :
              /\ \A q \in NamedBefore : q.upd <= r.upd
              /\ {q \in NamedBefore : Alive(q.id)} = {r}

\* C8: when the user answered 0 to the prompt over the records carrying the
\* entity's name, no record is deleted and the entity's meta in memory and
\* on disk is what it was.
Cex_C8 ==
    (FixedNow /\ ~force /\ ev.st = "ok" /\ Cardinality(NamedBefore) > 1
       /\ ev.ans = 0)
        => remote = ev.preRemote /\ MetaUntouched

\* C9: a Remove of the category whose sections and articles all hold ids
\* has issued NumSections + 1 group deletes and one article delete per
\* article when it is over.
Cex_C9 ==
    (run.kind = "remove" /\ run.state = "done" /\ IsCategory(target)
       /\ \A e \in Entities : run.startPresent[e] /\ mem[e].id # 0)
        => /\ calls.delete_group = NumSections + 1
           /\ calls.delete_article = NumSections * NumArticles

\* The deletes a Remove has to send: one for the item if it holds an id, one
\* per translation id of every entity of the subtree.
RECURSIVE HeldIds(_)
HeldIds(es) ==
    IF es = {} THEN 0
    ELSE LET e == CHOOSE x \in es : TRUE
         IN translate_ids(e) + HeldIds(es \ {e})
LocalGone ==
    \E e \in Subtree(target) :
        run.startPresent[e] /\ ~present[e]
AllDeletesSent ==
    /\ calls.raw_delete = (IF mem[target].id # 0 THEN 1 ELSE 0)
    /\ calls.translate_delete =
          HeldIds({e \in Subtree(target) : run.startPresent[e]})

Cex_C11 ==
    (run.kind = "remove" /\ run.state \in {"done", "crashed"} /\ ~run.failed)
        => /\ calls.translate_delete =
                 HeldIds({e \in Subtree(target) : run.startPresent[e]})
           /\ \A e \in Subtree(target) : ~present[e] /\ disk[e] = NoFile

\* C12: in an Export, the id a create returned for an entity is in the
\* entity's meta file at every later moment of the run, except the moment
\* between the answer and the write (where no remote call is made) and a
\* run killed on that entity.
Thm_C12 ==
    run.kind = "export"
        => \A e \in Entities :
              run.posted[e] # 0
                 => \/ disk[e].file /\ disk[e].id = run.posted[e]
                    \/ task = "export" /\ pc = "save" /\ idx = e
                    \/ run.state = "stopped" /\ ev.op = "Stop" /\ ev.e = e

Wit_C12 ==
    /\ task = "export" /\ pc = "trans" /\ tq = <<>>
    /\ run.posted[idx] # 0
    /\ disk[idx].id = run.posted[idx]
    /\ calls.get_missing_locales > 0
    /\ calls.post_translation > 0

Cex_C14 ==
    (run.kind = "export" /\ ev.op = "post" /\ Parent(ev.e) # 0)
        => ev.preParent # 0

\* C15 (per-entity isolation): when the listing _fix_item asked for was
\* answered with a 5xx status, reconciliation of that entity is abandoned
\* (its meta in memory and on disk and the help center are what they were)
\* and the walk goes on with the next entity.
Cex_C15 ==
    (FixedNow /\ ev.st = "fail")
        => /\ MetaUntouched /\ remote = ev.preRemote
           /\ task # "idle" /\ pc = "fix" /\ idx = NextIdx(ev.e)

\* C16 (Export halts on transport failure): when a call of the push phase
\* of Export (record create, missing-locale probe, translation fetch,
\* create or update) was answered with a 5xx status, the task is over
\* without having completed, so that no further call follows in the run.
Cex_C16 ==
    (run.kind = "export" /\ ev.st = "fail"
       /\ ev.op \in {"post", "get_missing_locales", "get_translation",
                     "post_translation", "put_translation"})
        => task = "idle" /\ run.state # "done"

\* A Move of e that passed the checks of its paths is over.
Moved(e) ==
    /\ run.kind = "move" /\ task = "idle"
    /\ ev.op = "MoveZendesk" /\ target = e /\ run.startPresent[e]

\* C17 (Move preserves content): after Move of an article from section A to
\* section B, the content and body of every locale are readable under B
\* with the text they had under A, and no meta, content or body file of
\* the article remains under A.
Cex_C17 ==
    \A e \in Entities :
        (Moved(e) /\ IsArticle(e))
            => ~present[e] /\ disk[e] = NoFile

\* C18 (Move re-points the remote parent link): Move of an article or a
\* section that holds a remote id has issued the update that sets its
\* section_id or category_id to the destination's id, and the entity's own
\* ids are what they were.
Cex_C18 ==
    \A e \in Entities :
        (Moved(e) /\ ~IsCategory(e) /\ disk[e].id # 0)
            => calls.put > 0

\* C19 (section move re-points descendants): Move of a section has issued,
\* for every article below it that holds translation ids, one relocate call
\* for the content file and one for the body file.
Cex_C19 ==
    \A e \in Entities :
        (Moved(e) /\ IsSection(e))
            => calls.translate_move
                 >= 2 * Cardinality({a \in Subtree(e) :
                          IsArticle(a) /\ present[a] /\ disk[a].tids})

\* What Saver.save was given for a node of the tree.
Saved(t, n) ==
    [kind |-> NodeKind(n), name |-> t.name[n], text |-> NodeText(t, n),
     up |-> UpName(t, n), id |-> NodeId(n), tids |-> FALSE,
     trs |-> {[locale |-> l, name |-> t.name[n], text |-> NodeText(t, n)] :
                l \in t.trs}]

\* C20 (path round trip): for any tree written with Saver.save, Loader.load
\* yields for every category, section and article an entity of the same
\* name, the same description or body and the same set of translations.
Cex_C20 ==
    rt.phase = "loaded"
        => \A n \in Nodes : Saved(rt.tree, n) \in rt.loaded

\* slugify was applied to a text and then to its own result.
SlugifiedTwice ==
    /\ fn.chain = <<"slugify", "slugify">>
    /\ fn.todo = <<>> /\ ~fn.raised /\ Len(fn.vals) = 2

\* C21 (slugify is idempotent): slugify of a slug is that slug.
Thm_C21 == SlugifiedTwice => fn.vals[2] = fn.vals[1]

Wit_C21 ==
    /\ SlugifiedTwice
    /\ fn.vals[1] # fn.arg /\ fn.vals[1] # <<>>
    /\ \E i \in 1..Len(fn.arg) : fn.arg[i] \in {" ", "-"}

\* C22 as stated: slugify returns for every text a text made only of the
\* characters a-z, 0-9 and the hyphen.
Cex_C22 ==
    (fn.chain = <<"slugify", "slugify">> /\ Len(fn.todo) < 2)
        => /\ ~fn.raised /\ fn.vals # <<>>
           /\ \A i \in 1..Len(fn.vals[1]) : fn.vals[1][i] \in {"a", "e", "1", "-"}

\* C22, amended: slugify returns for every text a text made only of lower
\* letters, digits, the underscore and the hyphen.
Thm_C22 ==
    (fn.chain = <<"slugify", "slugify">> /\ Len(fn.todo) < 2)
        => /\ ~fn.raised /\ fn.vals # <<>>
           /\ \A i \in 1..Len(fn.vals[1]) :
                 fn.vals[1][i] \in {"a", "e", "1", "_", "-"}

Wit_C22 ==
    /\ fn.chain = <<"slugify", "slugify">> /\ Len(fn.vals) = 1
    /\ \E i \in 1..Len(fn.arg) : fn.arg[i] \in {"!", "cjk", "A", "e_acute"}
    /\ \E i \in 1..Len(fn.vals[1]) : fn.vals[1][i] = "_"

\* A code the help center can advertise: lower letters in parts joined by
\* single hyphens.
Advertised(l) ==
    /\ l # <<>>
    /\ \A i \in 1..Len(l) : l[i] \in {"a", "-"}
    /\ \A p \in 1..Len(Split(l)) : Split(l)[p] # <<>>

\* A local directory locale: what to_iso_locale returns for such a code.
Produced(d) ==
    \E l \in LocaleInputs :
        Advertised(l) /\ ~to_iso_locale(l).raised /\ to_iso_locale(l).val = d

\* C23 (locale conversion round trip): to_zendesk_locale(to_iso_locale(L))
\* is L for every code L the help center can advertise, to_iso_locale(
\* to_zendesk_locale(D)) is D for every D that to_iso_locale produces, and
\* neither conversion raises.
Cex_C23 ==
    /\ (fn.chain = <<"to_iso_locale", "to_zendesk_locale">>
           /\ fn.todo = <<>> /\ Advertised(fn.arg))
          => ~fn.raised /\ Len(fn.vals) = 2 /\ fn.vals[2] = fn.arg
    /\ (fn.chain = <<"to_zendesk_locale", "to_iso_locale">>
           /\ fn.todo = <<>> /\ Produced(fn.arg))
          => ~fn.raised /\ Len(fn.vals) = 2 /\ fn.vals[2] = fn.arg

\* C24 (second export issues no writes at all): an Export that directly
\* follows a clean Export of the same configuration, with no edit in
\* between and nothing for its reconciliation pass to change, issues no post
\* and no put of any kind, whether or not article comments are to be
\* disabled.
Cex_C24 ==
    (ExportDone /\ run.second /\ run.sameCfg /\ ~run.failed /\ ~run.changed)
        => /\ calls.post = 0
           /\ calls.post_translation = 0
           /\ calls.put_translation = 0
           /\ calls.put = 0


\* The place the claim names for a file of a node: the slugs of the node's
\* ancestors and of the node, en-US for an article, as the components of a
\* path (an empty slug adds no component), and the file's name and
\* extension.
Slug(t, n) == slugify(t.name[n])
NonEmpty(c) == c # <<>>
ExpectDir(t, n) ==
    SelectSeq(CASE n = "c1" -> <<Slug(t, "c1")>>
                [] n = "c2" -> <<Slug(t, "c2")>>
                [] n = "s" -> <<Slug(t, "c1"), Slug(t, "s")>>
                [] n = "a" -> <<Slug(t, "c1"), Slug(t, "s"), <<"en-US">>>>,
              NonEmpty)
ExpectFiles(t) ==
    UNION {IF n = "a"
           THEN {[dir |-> ExpectDir(t, n), stem |-> <<".article_">> \o Slug(t, n), ext |-> "meta"],
                 [dir |-> ExpectDir(t, n), stem |-> Slug(t, n), ext |-> "json"],
                 [dir |-> ExpectDir(t, n), stem |-> Slug(t, n), ext |-> "mkdown"]}
           ELSE {[dir |-> ExpectDir(t, n), stem |-> <<".group">>, ext |-> "meta"],
                 [dir |-> ExpectDir(t, n), stem |-> <<"__group__">>, ext |-> "json"]} :
             n \in Nodes}
Places(fs) == {[dir |-> f.dir, stem |-> f.stem, ext |-> f.ext] : f \in fs}

\* C29 (path derivation): after Saver.save the files under the root are
\* exactly .group.meta and __group__.json in <category> and in
\* <category>/<section>, and .article_<article>.meta, <article>.json and
\* <article>.mkdown in <category>/<section>/en-US, every name being the
\* slug of the entity; the meta files hold the ids of the entities and the
\* body file the body.
Thm_C29 ==
    rt.phase \in {"saved", "loaded"} /\ rt.tree # <<>>
        => /\ Places(rt.files) = ExpectFiles(rt.tree)
           /\ \A f \in rt.files :
                 /\ f.ext = "meta" =>
                       \E n \in Nodes : /\ f.dir = ExpectDir(rt.tree, n)
                                        /\ f.data.id = NodeId(n)
                                        /\ (n = "a") = (f.stem # <<".group">>)
                 /\ f.ext = "mkdown" => f.data.text = rt.tree.body
                 /\ f.ext = "json" =>
                       \E n \in Nodes : /\ f.dir = ExpectDir(rt.tree, n)
                                        /\ f.data.name = rt.tree.name[n]

Wit_C29 ==
    /\ rt.phase = "saved"
    /\ Cardinality(rt.files) = 9
    /\ \A n \in Nodes : Slug(rt.tree, n) # <<>>
    /\ Slug(rt.tree, "c1") # Slug(rt.tree, "c2")


\* Every file under the root holds what the tool writes, or nothing.
Tolerable(fs) == \A f \in fs : f.data.form \in {"full", "empty", "text", "meta"}

\* The directory an entity of the kind is loaded from, and the names of its
\* meta and content files.
LoadDir(fs, k) ==
    CASE k = "category" -> CHOOSE d \in CategoryDirs(fs) : TRUE
      [] k = "section" -> CHOOSE d \in SectionDirs(fs) : TRUE
      [] k = "article" -> Append(CHOOSE d \in SectionDirs(fs) : TRUE, <<"en-US">>)
LoadStem(fs, k) ==
    IF k = "article"
    THEN CHOOSE a \in ArticleNames(fs, CHOOSE d \in SectionDirs(fs) : TRUE) : TRUE
    ELSE <<"__group__">>
LoadMetaStem(fs, k) ==
    IF k = "article" THEN <<".article_">> \o LoadStem(fs, k) ELSE <<".group">>
BaseName(fs, k) ==
    IF k = "article" THEN LoadStem(fs, k) ELSE LoadDir(fs, k)[Len(LoadDir(fs, k))]
NoMetaFile(fs, k) == ~HasFile(fs, LoadDir(fs, k), LoadMetaStem(fs, k), "meta")
NoContentFile(fs, k) == ~HasFile(fs, LoadDir(fs, k), LoadStem(fs, k), "json")

\* C25 (loading tolerates absent files): loading a root whose files are
\* well formed does not raise whichever meta and content files are absent;
\* the category, section or article whose meta file is absent is loaded
\* without remote id and without translation ids, the one whose content
\* file is absent with the basename of its directory or file for a name.
Thm_C25 ==
    rt.phase = "loaded" /\ rt.tree = <<>> /\ Tolerable(rt.files)
        => /\ ~rt.error
           /\ \A k \in {"category", "section", "article"} :
                 /\ \E e \in rt.loaded : e.kind = k
                 /\ \A e \in rt.loaded :
                       e.kind = k =>
                          /\ NoMetaFile(rt.files, k) => e.id = 0 /\ ~e.tids
                          /\ NoContentFile(rt.files, k) => e.name = BaseName(rt.files, k)

Wit_C25 ==
    /\ rt.phase = "loaded" /\ rt.tree = <<>> /\ Tolerable(rt.files)
    /\ NoMetaFile(rt.files, "category") /\ NoContentFile(rt.files, "category")
    /\ NoMetaFile(rt.files, "article") /\ NoContentFile(rt.files, "article")
    /\ ~NoMetaFile(rt.files, "section") /\ ~NoContentFile(rt.files, "section")
    /\ \E e \in rt.loaded : e.kind = "section" /\ e.id = 2 /\ e.tids
    /\ \E e \in rt.loaded : e.kind = "article" /\ e.id = 0 /\ e.name = <<"a">>

\* C26 (an article translation needs both halves): every translation of a
\* loaded article has its content file and its body file on disk.
Cex_C26 ==
    rt.phase = "loaded" /\ rt.tree = <<>> /\ ~rt.error
        => \A e \in rt.loaded :
              e.kind = "article" =>
                 \A tr \in e.trs :
                    LET dir == Append(CHOOSE d \in SectionDirs(rt.files) : TRUE, tr.locale)
                    IN /\ HasFile(rt.files, dir, LoadStem(rt.files, "article"), "json")
                       /\ HasFile(rt.files, dir, LoadStem(rt.files, "article"), "mkdown")

\* The files the article and the entities above it are loaded from are
\* well formed.
MainFilesFine(fs) ==
    \A f \in fs : (f.ext = "meta" \/ f.stem = LoadStem(fs, "article") \/ f.stem = <<"__group__">>)
                     /\ f.dir[Len(f.dir)] # <<"pl">>
                        => f.data.form \in {"full", "empty", "text", "meta"}

\* C30 (loading translations never throws): whatever the translation files
\* of the groups and of the article hold, Loader.load does not raise.
Cex_C30 ==
    rt.phase = "loaded" /\ rt.tree = <<>> /\ MainFilesFine(rt.files) => ~rt.error


\* One turn of the loop of Pusher._push_item_translations that is answered:
\* the entity is on the remote side, every call of the turn gets a 2xx, and
\* a locale that is not missing has a remote translation to fetch.
AnsweredTurn ==
    /\ task = "export" /\ pc = "trans" /\ tq # <<>>
    /\ calls' # calls
    /\ ev'.st = "ok"
    /\ mem[idx].id # 0 /\ Alive(mem[idx].id)
    /\ to_zendesk_locale(Head(tq)) \notin miss
          => Rec(mem[idx].id).tr[to_zendesk_locale(Head(tq))] # ""

Issued(k) == calls'[k] - calls[k]

FixedBelow == ev.op = "fix" /\ ~IsCategory(ev.e)

\* The records of the entity's name and kind that lay under another parent
\* than the entity's own when _fix_item started.
Foreign ==
    {r \in ev.preRemote : /\ r.kind = ZendeskGroup(ev.e) /\ r.name = ev.e
                          /\ r.parent # ev.preParent}

MainSiblingScope ==
    ev.op = "fix_main" /\ ~IsCategory(ev.e) /\ run.fixed[ev.e] = "adopted"
        => \E r \in ev.preRemote : r.id = ev.ret /\ r.parent = ev.preParent


\* save_json has just been called on the meta file of ev.e, which held a
\* mapping: by Pusher._push_new_item with the answer of the create, or by
\* Doctor._fix_item with the record it adopts.  Neither mapping has the key
\* 'webtranslateit_ids'.
SavedOnto ==
    /\ ev.op = "save" \/ (ev.op = "fix" /\ run.fixed[ev.e] = "adopted")
    /\ ev.preDisk.file

\* C31 (save_json merges): after save_json on a meta file that held a
\* mapping, the key 'webtranslateit_ids', which the data does not have, is
\* on disk as it was, and the key 'id' has the value of the data when the
\* data has one.
Cex_C31 ==
    SavedOnto
        => /\ disk[ev.e].file
           /\ disk[ev.e].tids = ev.preDisk.tids
           /\ mem[ev.e].id # 0 => disk[ev.e].id = mem[ev.e].id


\* C32 (self-healing rename is idempotent): when the first load of a
\* hand-written tree has returned, the second load returns too, renames
\* nothing and yields the entities of the first.
Cex_C32 ==
    rt.phase = "again" /\ ~rt.failed
        => ~rt.error /\ rt.moves = 0 /\ rt.again = rt.loaded


\* An Export has come to its end without a failed call, in a behaviour
\* where nobody edited anything and no call ever failed, after an Export
\* that was killed between the answer of a create and the write of the
\* meta file.
Recovered ==
    /\ ExportDone /\ ~run.failed
    /\ edits = 0 /\ fails = 0
    /\ \E e \in Entities : past.lost[e] # 0

\* C33 (crash recovery without duplicates): at the end of that Export the
\* one remote record of the entity's name is the record the killed run
\* created, it lies under the record of the entity's parent, and the
\* entity's meta file holds its id.
Thm_C33 ==
    Recovered
        => \A e \in Entities :
              past.lost[e] # 0
                 => /\ {r.id : r \in {x \in remote : x.kind = ZendeskGroup(e) /\ x.name = e}}
                          = {past.lost[e]}
                    /\ disk[e].file /\ disk[e].id = past.lost[e]
                    /\ Parent(e) # 0 => Rec(past.lost[e]).parent = disk[Parent(e)].id

Wit_C33 ==
    /\ Recovered
    /\ \E e \in Entities :
         /\ past.lost[e] # 0 /\ ~IsCategory(e)
         /\ disk[e].id = past.lost[e]
         /\ run.fixed[e] = "adopted"
         /\ calls.post > 0


\* C34 (a transport failure during reconciliation changes no local state):
\* when the listing of _fix_item was answered with a 5xx status, the
\* entity's meta file is what it was, and so are the remote id and the
\* translation ids of its meta in memory.
Cex_C34 ==
    (ev.op = "fix" /\ ev.st = "fail")
        => /\ disk[ev.e].file = ev.preDisk.file
           /\ disk[ev.e].id = ev.preDisk.id /\ disk[ev.e].tids = ev.preDisk.tids
           /\ mem[ev.e].id = ev.preMem.id /\ mem[ev.e].tids = ev.preMem.tids


\* C35 (no remote call of Export references an absent remote id): the
\* entity named by a missing-locale probe, a translation fetch, create or
\* update of Pusher holds a remote id when the call is issued, and so does
\* the parent named by the create of a section or an article.
Cex_C35 ==
    run.kind = "export"
        => /\ ev.op \in {"get_missing_locales", "get_translation",
                         "post_translation", "put_translation"}
                 => ev.preMem.id # 0
           /\ (ev.op = "post" /\ Parent(ev.e) # 0) => ev.preParent # 0


\* C36 (interactive duplicate resolution never deletes every candidate):
\* whatever number the user answered to the prompt over the records that
\* carried the entity's name, one of them is still in the help center and
\* the record _merge_items returned is one that is still there.
Cex_C36 ==
    (ev.op = "fix" /\ ev.mode = "interactive" /\ ev.st = "ok")
        => /\ \E r \in NamedBefore : Alive(r.id)
           /\ ev.ret # 0 /\ Alive(ev.ret)

\* C37 (forced duplicate resolution adopts the survivor): when _fix_item
\* ran with force over several records of the entity's name, the entity's
\* meta holds the id of the record _merge_items returned, and that record
\* is in the help center.
Cex_C37 ==
    (ev.op = "fix" /\ ev.mode = "forced" /\ ev.st = "ok")
        => /\ ev.ret # 0 /\ Alive(ev.ret)
           /\ mem[ev.e].id = ev.ret /\ disk[ev.e].id = ev.ret


\* C38 (Import is injective on paths): after Saver.save the two categories
\* of the tree, which are two records of the help center, lie in two
\* directories below the root, and each directory holds the meta of its
\* own record and the name of its own category.
CategoryMetas ==
    {f \in rt.files : f.ext = "meta" /\ f.stem = <<".group">> /\ Len(f.dir) = 1}
Cex_C38 ==
    rt.phase = "saved"
        => /\ NodePath(rt.tree, "c1") # NodePath(rt.tree, "c2")
           /\ Cardinality(CategoryMetas) = 2
           /\ \A n \in {"c1", "c2"} :
                /\ read_json(rt.files, NodePath(rt.tree, n), <<".group">>, "meta").id
                     = NodeId(n)
                /\ read_json(rt.files, NodePath(rt.tree, n), GroupStem, "json").name
                     = rt.tree.name[n]


\* C39 (section move relocates the section's own content file under its
\* own id): every relocate call MoveTask.execute of translator.py made for
\* the moved section's __group__.json carries the translation id of the
\* section, however many articles the section holds.
Cex_C39 ==
    rt.phase = "moved"
        => \A i \in 1..Len(rt.sent) :
             (rt.sent[i].op = "translate_move"
                /\ rt.sent[i].path = MovedFile("__group__", "json"))
               => rt.sent[i].id = TranslateId("s", "content")

====
